---- MODULE Spec2Model ----
(***************************************************************************)
(* MacroCalc: recursive-descent parser (Project2.cpp), symbol table and    *)
(* tree-walking evaluator (ASTNode.hpp).  The parser and the evaluator are *)
(* recursive operators over explicit state records; the actions are the   *)
(* iterations of MacroCalc::Parse and of the root scope's RunScope loop.   *)
(***************************************************************************)
EXTENDS Integers, Sequences, FiniteSets, TLC

VARIABLES tokens, ndebug, pc, token_idx, scope_stack, all_variables, root,
          exec_idx, out, log, err, fuel

vars == <<tokens, ndebug, pc, token_idx, scope_stack, all_variables, root,
          exec_idx, out, log, err, fuel>>

(***************************************************************************)
(* Bounds of the model.                                                    *)
(***************************************************************************)
\* magnitude limit of the numerators and denominators the model represents
ValCap == 1000
\* number of loop-body executions a run may perform before it is cut off
MaxIter == 4
\* largest number literal drawn for the operands of generated expressions
MaxLit == 2

(***************************************************************************)
(* double values: exact rationals <<n, d>> with d > 0, in lowest terms.    *)
(* Unmodelled (<<0, 0>>) stands for a result outside the represented range *)
(* (magnitude above ValCap, infinities, NaN, irrational powers).           *)
(***************************************************************************)
Abs(i) == IF i < 0 THEN -i ELSE i

RECURSIVE GCD(_, _)
GCD(a, b) == IF b = 0 THEN a ELSE GCD(b, a % b)

Unmodelled == <<0, 0>>

Norm(n, d) ==
  IF d = 0 THEN Unmodelled
  ELSE LET g == GCD(Abs(n), Abs(d))
           s == IF d < 0 THEN -1 ELSE 1
           nn == s * (n \div g)   \* g divides n exactly
           dd == Abs(d) \div g
       IN IF Abs(nn) > ValCap \/ dd > ValCap THEN Unmodelled ELSE <<nn, dd>>

Num(i) == <<i, 1>>
Zero == Num(0)
One == Num(1)
IsZero(v) == v[1] = 0 /\ v[2] # 0
FromBool(b) == IF b THEN One ELSE Zero

RAdd(a, b) == Norm(a[1] * b[2] + b[1] * a[2], a[2] * b[2])
RSub(a, b) == Norm(a[1] * b[2] - b[1] * a[2], a[2] * b[2])
RMul(a, b) == Norm(a[1] * b[1], a[2] * b[2])
\* only used with a nonzero divisor
RDiv(a, b) == Norm(a[1] * b[2], a[2] * b[1])
RLt(a, b) == a[1] * b[2] < b[1] * a[2]
RLe(a, b) == a[1] * b[2] <= b[1] * a[2]

\* static_cast<int>(double): truncation toward zero
TruncInt(v) == IF v[1] < 0 THEN -((-v[1]) \div v[2]) ELSE v[1] \div v[2]
\* the C++ % of two ints, b # 0: the remainder has the sign of the dividend
CRem(a, b) == IF a < 0 THEN -((-a) % Abs(b)) ELSE a % Abs(b)

RECURSIVE PowNat(_, _)
\* b ** e by repeated multiplication, e a natural number, |b| not 0 or 1
PowNat(b, e) ==
  IF e = 0 THEN One
  ELSE LET r == PowNat(b, e - 1)
       IN IF r = Unmodelled THEN Unmodelled ELSE RMul(r, b)

\* std::pow(l, r) on the values the model represents exactly
Pow(l, r) ==
  IF r[2] # 1 THEN (IF l = One THEN One ELSE Unmodelled)
  ELSE IF r[1] = 0 THEN One
  ELSE IF l = One THEN One
  ELSE IF l = Zero THEN (IF r[1] > 0 THEN Zero ELSE Unmodelled)
  ELSE IF l = Num(-1) THEN (IF r[1] % 2 = 0 THEN One ELSE Num(-1))
  \* |l| >= 2 or its denominator >= 2: beyond 2^12 the result leaves ValCap
  ELSE IF Abs(r[1]) > 12 THEN Unmodelled
  ELSE IF r[1] > 0 THEN PowNat(l, r[1])
  ELSE PowNat(Norm(l[2], l[1]), -r[1])

(***************************************************************************)
(* Tokens (emplex::Token of the external lexer): kind, text, line.  A      *)
(* string token also carries the pieces the external StringLexer splits   *)
(* its text into.                                                          *)
(***************************************************************************)
Tok(id, lexeme) == [id |-> id, lexeme |-> lexeme, line_id |-> 1, pieces |-> <<>>]
Piece(id, lexeme, name) == [id |-> id, lexeme |-> lexeme, name |-> name]
StrTok(pieces) == [id |-> "ID_STRING", lexeme |-> "str", line_id |-> 1, pieces |-> pieces]

tVar == Tok("ID_VAR", "var")
tEnd == Tok("ID_ENDLINE", ";")
tLB == Tok("ID_SCOPE_Start", "{")
tRB == Tok("ID_SCOPE_END", "}")
tLP == Tok("ID_OPEN_PARENTHESIS", "(")
tRP == Tok("ID_CLOSE_PARENTHESIS", ")")
tAsg == Tok("ID_ASSIGN", "=")
tIf == Tok("ID_IF", "if")
tElse == Tok("ID_ELSE", "else")
tWhile == Tok("ID_WHILE", "while")
tPrint == Tok("ID_PRINT", "print")
tNot == Tok("ID_NOT", "!")
tId(name) == Tok("ID_ID", name)
tNum(lex) == Tok("ID_NUMBER", lex)

EqualsOps == {"==", "!="}
CompareOps == {"<", ">", "<=", ">="}
MathOps == {"+", "-", "*", "/", "%", "**"}
BoolOps == {"&&", "||"}
BinOps == BoolOps \cup EqualsOps \cup CompareOps \cup MathOps

\* the token of a binary operator; the parser tells "&&", "||" and the
\* arithmetic operators apart by their text only
tOp(op) == IF op \in EqualsOps THEN Tok("ID_EQUALS", op)
           ELSE IF op \in CompareOps THEN Tok("ID_COMPARE", op)
           ELSE IF op \in MathOps THEN Tok("ID_MATH", op)
           ELSE Tok("ID_BOOL", op)

\* std::stod on the number literals of the generated programs
Stod(lex) ==
  CASE lex = "0" -> Num(0)
    [] lex = "1" -> Num(1)
    [] lex = "2" -> Num(2)
    [] lex = "3" -> Num(3)
    [] lex = "4" -> Num(4)
    [] lex = "5" -> Num(5)
    [] lex = "7" -> Num(7)
    [] lex = "8" -> Num(8)
    [] lex = "0.5" -> Norm(1, 2)
    [] OTHER -> Unmodelled

(***************************************************************************)
(* ASTNode.                                                                *)
(***************************************************************************)
\* enum Type, and ASTNode::operator int()
TypeInt(type) ==
  CASE type = "EMPTY" -> 0
    [] type = "SCOPE" -> 1
    [] type = "PRINT" -> 2
    [] type = "ASSIGN" -> 3
    [] type = "IDENTIFIER" -> 4
    [] type = "CONDITIONAL" -> 5
    [] type = "OPERATION" -> 6
    [] type = "NUMBER" -> 7
    [] type = "WHILE" -> 8
    [] type = "STRING" -> 9

\* the four constructors: every field not given keeps its default
ASTNode(type) ==
  [type |-> type, literal |-> "", value |-> Zero, var_id |-> 0, children |-> <<>>]
ASTNodeLit(type, literal) == [ASTNode(type) EXCEPT !.literal = literal]
ASTNodeVal(type, value) == [ASTNode(type) EXCEPT !.value = value]
ASTNodeVar(type, var_id) == [ASTNode(type) EXCEPT !.var_id = var_id]

\* mutant: every node is appended, the EMPTY placeholder included
AddChildKeepEmpty(node, child) ==
  [node EXCEPT !.children = Append(@, child)]

\* AddChild: `if (node)` converts the child through operator int(), so a
\* child of type EMPTY (= 0) is not appended
AddChild(node, child) ==
  IF TypeInt(child.type) # 0
  THEN [node EXCEPT !.children = Append(@, child)]
  ELSE node

AddChildren(node, c1, c2) == AddChild(AddChild(node, c1), c2)

\* the variadic constructor ASTNode(type, literal, children...)
ASTNodeOp1(type, literal, c1) == AddChild(ASTNodeLit(type, literal), c1)
ASTNodeOp2(type, literal, c1, c2) == AddChildren(ASTNodeLit(type, literal), c1, c2)

(***************************************************************************)
(* SymbolTable.  The operations act on any record that has the fields      *)
(* scope_stack / all_variables / err (the parser state) or all_variables / *)
(* log / err (the evaluator state).  A scope frame is a function from the  *)
(* names it binds to their slots.                                          *)
(***************************************************************************)
\* mutant: a record is born initialized
VariableInfoInitiated(name, value, line) ==
  [name |-> name, value |-> value, line_declared |-> line, initiated |-> TRUE]

VariableInfo(name, value, line) ==
  [name |-> name, value |-> value, line_declared |-> line, initiated |-> FALSE]

EmptyScope == [n \in {} |-> 0]

\* a fatal error: the first one is kept, nothing runs after it
Fatal(s, kind) == IF s.err = "none" THEN [s EXCEPT !.err = kind] ELSE s

\* mutant: no frame is pushed
PushScopeNothing(s) == s

PushScope(s) == [s EXCEPT !.scope_stack = Append(@, EmptyScope)]

\* mutant: the innermost frame is popped whatever the depth
PopScopeUnchecked(s) ==
  IF Len(s.scope_stack) = 0 THEN Fatal(s, "pop nonexistent scope")
  ELSE [s EXCEPT !.scope_stack = SubSeq(@, 1, Len(@) - 1)]

PopScope(s) ==
  IF Len(s.scope_stack) = 0 THEN Fatal(s, "pop nonexistent scope")
  ELSE IF Len(s.scope_stack) = 1 THEN Fatal(s, "pop outermost scope")
  ELSE [s EXCEPT !.scope_stack = SubSeq(@, 1, Len(@) - 1)]

HasVar(s, name) ==
  \E i \in 1..Len(s.scope_stack) : name \in DOMAIN s.scope_stack[i]

\* mutant: a name bound in any frame counts as declared already
AddVarAnyFrame(s, name, line) ==
  IF HasVar(s, name) THEN Fatal(s, "redeclared")
  ELSE LET top == Len(s.scope_stack)
           new_index == Len(s.all_variables)
       IN [s EXCEPT !.all_variables = Append(@, VariableInfo(name, Zero, line)),
                    !.scope_stack[top] = @ @@ (name :> new_index),
                    !.ret = new_index]

\* mutant: the new slot is the number of names the open frames bind
AddVarReuse(s, name, line) ==
  LET top == Len(s.scope_stack)
      curr_scope == s.scope_stack[top]
  IN IF name \in DOMAIN curr_scope THEN Fatal(s, "redeclared")
     ELSE LET new_index ==
                Cardinality({<<f, n>> \in (1..top) \X {"x", "y", "i"} :
                               n \in DOMAIN s.scope_stack[f]})
          IN [s EXCEPT !.all_variables = Append(@, VariableInfo(name, Zero, line)),
                       !.scope_stack[top] = @ @@ (name :> new_index),
                       !.ret = new_index]

\* AddVar: the new slot is the size of all_variables; .ret is the return
AddVar(s, name, line) ==
  LET top == Len(s.scope_stack)
      curr_scope == s.scope_stack[top]
  IN IF name \in DOMAIN curr_scope THEN Fatal(s, "redeclared")
     ELSE LET new_index == Len(s.all_variables)
          IN [s EXCEPT !.all_variables = Append(@, VariableInfo(name, Zero, line)),
                       !.scope_stack[top] = @ @@ (name :> new_index),
                       !.ret = new_index]

\* mutant: the walk stops at the outermost frame that binds the name
OutermostFrame(s, name) ==
  CHOOSE i \in 1..Len(s.scope_stack) :
    /\ name \in DOMAIN s.scope_stack[i]
    /\ \A j \in 1..(i - 1) : name \notin DOMAIN s.scope_stack[j]

\* the frame the name lookup of HasVar / GetValue(name) / SetValue(name)
\* stops at: the walk goes from rbegin() to rend(), innermost first
InnermostFrame(s, name) ==
  CHOOSE i \in 1..Len(s.scope_stack) :
    /\ name \in DOMAIN s.scope_stack[i]
    /\ \A j \in (i + 1)..Len(s.scope_stack) : name \notin DOMAIN s.scope_stack[j]

\* FindVar(name, line): resolve a name to its slot; undeclared is fatal
FindVar(s, name) ==
  IF ~HasVar(s, name) THEN Fatal(s, "undeclared")
  ELSE [s EXCEPT !.ret = s.scope_stack[InnermostFrame(s, name)][name]]

\* GetValue(var_id, token): read a slot; .val is the return
GetValue(e, var_id) ==
  IF var_id >= Len(e.all_variables) THEN Fatal(e, "invalid index")
  ELSE IF ~e.all_variables[var_id + 1].initiated
  THEN [Fatal(e, "uninitialized") EXCEPT
          !.log = Append(@, [op |-> "getfail", id |-> var_id, v |-> Zero])]
  ELSE [e EXCEPT !.val = e.all_variables[var_id + 1].value, !.has = TRUE,
                 !.log = Append(@, [op |-> "get", id |-> var_id,
                                    v |-> e.all_variables[var_id + 1].value])]

\* SetValue(var_id, value): write a slot
SetValue(e, var_id, new_value) ==
  IF var_id >= Len(e.all_variables) THEN Fatal(e, "invalid index")
  ELSE [e EXCEPT !.all_variables[var_id + 1].value = new_value,
                 !.all_variables[var_id + 1].initiated = TRUE,
                 !.log = Append(@, [op |-> "set", id |-> var_id, v |-> new_value])]

(***************************************************************************)
(* Sequencing.  Bind(s, K) evaluates the state s once and continues with   *)
(* K unless a fatal error is set: a fatal error ends the process, so every *)
(* step after it is skipped.  Let(x, K) is K on the value of x.            *)
(***************************************************************************)
Ok(s) == s.err = "none"
Let(x, K(_)) == CHOOSE r \in {K(v) : v \in {x}} : TRUE
Bind(s, K(_)) == CHOOSE r \in {IF Ok(v) THEN K(v) ELSE v : v \in {s}} : TRUE

(***************************************************************************)
(* MacroCalc, the parser.  A parser state s is the record                  *)
(*   [toks, idx, scope_stack, all_variables, err, node, ret, tok, got]     *)
(* toks / idx are tokens / token_idx, scope_stack / all_variables the      *)
(* table, node the ASTNode a Parse function returns, ret a returned slot,  *)
(* tok / got the token a Consume / Expect / IfToken call returns.          *)
(***************************************************************************)
AtEOF(s) == s.idx >= Len(s.toks)
\* tokens.at(token_idx), used only when ~AtEOF(s)
Cur(s) == s.toks[s.idx + 1]

\* CurToken: reading the cursor past the last token is fatal
CurToken(s) == IF AtEOF(s) THEN Fatal(s, "Unexpected EOF") ELSE s

ConsumeToken(s) ==
  IF AtEOF(s) THEN Fatal(s, "Unexpected EOF")
  ELSE [s EXCEPT !.idx = @ + 1, !.tok = Cur(s)]

ExpectToken(s, id) ==
  IF AtEOF(s) THEN Fatal(s, "Unexpected EOF")
  ELSE IF Cur(s).id = id THEN ConsumeToken(s)
  ELSE Fatal(s, "Unexpected token")

\* IfToken: .got tells whether the token was there (a null pointer if not)
IfToken(s, id) ==
  IF AtEOF(s) THEN Fatal(s, "Unexpected EOF")
  ELSE IF Cur(s).id = id THEN [ConsumeToken(s) EXCEPT !.got = TRUE]
  ELSE [s EXCEPT !.got = FALSE]

\* return node from a Parse function (nothing is returned after a fatal error)
Ret(s, node) == IF Ok(s) THEN [s EXCEPT !.node = node] ELSE s

RECURSIVE ParseStatement(_), ParseScopeLoop(_, _), ParseExpr(_), ParseAssign(_)
RECURSIVE ParseOr(_), ParseOrLoop(_), ParseAnd(_), ParseAndLoop(_)
RECURSIVE ParseEquals(_), ParseCompare(_), ParseAddSub(_), ParseAddSubLoop(_)
RECURSIVE ParseMulDivMod(_), ParseMulDivModLoop(_), ParseExponentiation(_)
RECURSIVE ParseNegate(_), ParseNOT(_), ParseTerm(_)
RECURSIVE ParseIF(_), ParseWhile(_), ParseScope(_), ParseDecl(_), ParsePrint(_)

\* the loop of ParseScope: statements up to the closing brace
ParseScopeLoop(s, scope) ==
  Bind(CurToken(s), LAMBDA s0 :
    IF Cur(s0).id # "ID_SCOPE_END"
    THEN Bind(ParseStatement(s0), LAMBDA s1 :
           Let(AddChild(scope, s1.node), LAMBDA scope1 :
             ParseScopeLoop(s1, scope1)))
    ELSE Ret(s0, scope))

\* mutant: the frame of the block is never popped
ParseScopeNoPop(s) ==
  Bind(ExpectToken(s, "ID_SCOPE_Start"), LAMBDA s1 :
  Bind(PushScope(s1), LAMBDA s2 :
  Bind(ParseScopeLoop(s2, ASTNode("SCOPE")), LAMBDA s3 :
  Bind(ConsumeToken(s3), LAMBDA s4 :
  Ret(s4, s3.node)))))

ParseScope(s) ==
  Bind(ExpectToken(s, "ID_SCOPE_Start"), LAMBDA s1 :
  Bind(PushScope(s1), LAMBDA s2 :
  Bind(ParseScopeLoop(s2, ASTNode("SCOPE")), LAMBDA s3 :
  Bind(ConsumeToken(s3), LAMBDA s4 :
  Bind(PopScope(s4), LAMBDA s5 :
  Ret(s5, s3.node))))))

\* mutant: the name is added before its initializer is parsed
ParseDeclEarly(s) ==
  Bind(ExpectToken(s, "ID_VAR"), LAMBDA s1 :
  Bind(ExpectToken(s1, "ID_ID"), LAMBDA s2 :
  Bind(IfToken(s2, "ID_ENDLINE"), LAMBDA s3 :
    IF s3.got
    THEN Bind(AddVar(s3, s2.tok.lexeme, s2.tok.line_id), LAMBDA s4 :
           Ret(s4, ASTNode("EMPTY")))
    ELSE Bind(ExpectToken(s3, "ID_ASSIGN"), LAMBDA s4 :
         Bind(AddVar(s4, s2.tok.lexeme, s2.tok.line_id), LAMBDA s5 :
         Bind(ParseExpr(s5), LAMBDA s6 :
         Bind(ExpectToken(s6, "ID_ENDLINE"), LAMBDA s7 :
           Ret(s7, AddChildren(ASTNode("ASSIGN"),
                               ASTNodeVar("IDENTIFIER", s5.ret),
                               s6.node)))))))))

ParseDecl(s) ==
  Bind(ExpectToken(s, "ID_VAR"), LAMBDA s1 :
  Bind(ExpectToken(s1, "ID_ID"), LAMBDA s2 :
  Bind(IfToken(s2, "ID_ENDLINE"), LAMBDA s3 :
    IF s3.got
    THEN Bind(AddVar(s3, s2.tok.lexeme, s2.tok.line_id), LAMBDA s4 :
           Ret(s4, ASTNode("EMPTY")))
    ELSE Bind(ExpectToken(s3, "ID_ASSIGN"), LAMBDA s4 :
         Bind(ParseExpr(s4), LAMBDA s5 :
         Bind(ExpectToken(s5, "ID_ENDLINE"), LAMBDA s6 :
         \* the name is added after its initializer has been resolved
         Bind(AddVar(s6, s2.tok.lexeme, s2.tok.line_id), LAMBDA s7 :
           Ret(s7, AddChildren(ASTNode("ASSIGN"),
                               ASTNodeVar("IDENTIFIER", s7.ret),
                               s5.node))))))))) 

ParseExpr(s) == ParseAssign(s)

ParseAssign(s) ==
  Bind(ParseOr(s), LAMBDA lhs :
  Bind(CurToken(lhs), LAMBDA s1 :
    IF Cur(s1).lexeme = "="
    THEN IF lhs.node.type # "IDENTIFIER" THEN Fatal(s1, "Unexpected token")
         ELSE Bind(ExpectToken(s1, "ID_ASSIGN"), LAMBDA s2 :
              Bind(ParseAssign(s2), LAMBDA rhs :
                Ret(rhs, ASTNodeOp2("ASSIGN", "=", lhs.node, rhs.node))))
    ELSE s1))

\* the while loops of the left-associative levels: lhs.node is lhs
ParseOrLoop(lhs) ==
  Bind(CurToken(lhs), LAMBDA s0 :
    IF Cur(s0).lexeme = "||"
    THEN Bind(ConsumeToken(s0), LAMBDA s1 :
         Bind(ParseAnd(s1), LAMBDA rhs :
         Let(Ret(rhs, ASTNodeOp2("OPERATION", "||", lhs.node, rhs.node)),
             LAMBDA lhs1 : ParseOrLoop(lhs1))))
    ELSE s0)

ParseOr(s) == Bind(ParseAnd(s), LAMBDA lhs : ParseOrLoop(lhs))

ParseAndLoop(lhs) ==
  Bind(CurToken(lhs), LAMBDA s0 :
    IF Cur(s0).lexeme = "&&"
    THEN Bind(ConsumeToken(s0), LAMBDA s1 :
         Bind(ParseEquals(s1), LAMBDA rhs :
         Let(Ret(rhs, ASTNodeOp2("OPERATION", "&&", lhs.node, rhs.node)),
             LAMBDA lhs1 : ParseAndLoop(lhs1))))
    ELSE s0)

ParseAnd(s) == Bind(ParseEquals(s), LAMBDA lhs : ParseAndLoop(lhs))

ParseEquals(s) ==
  Bind(ParseCompare(s), LAMBDA lhs :
  Bind(CurToken(lhs), LAMBDA s1 :
    IF Cur(s1).id = "ID_EQUALS"
    THEN Bind(ExpectToken(s1, "ID_EQUALS"), LAMBDA s2 :
         Bind(ParseCompare(s2), LAMBDA rhs :
           Ret(rhs, ASTNodeOp2("OPERATION", s2.tok.lexeme, lhs.node, rhs.node))))
    ELSE s1))

ParseCompare(s) ==
  Bind(ParseAddSub(s), LAMBDA lhs :
  Bind(CurToken(lhs), LAMBDA s1 :
    IF Cur(s1).id = "ID_COMPARE"
    THEN Bind(ExpectToken(s1, "ID_COMPARE"), LAMBDA s2 :
         Bind(ParseAddSub(s2), LAMBDA rhs :
           Ret(rhs, ASTNodeOp2("OPERATION", s2.tok.lexeme, lhs.node, rhs.node))))
    ELSE s1))

ParseAddSubLoop(lhs) ==
  Bind(CurToken(lhs), LAMBDA s0 :
    IF Cur(s0).lexeme = "+" \/ Cur(s0).lexeme = "-"
    THEN Bind(ConsumeToken(s0), LAMBDA s1 :
         Bind(ParseMulDivMod(s1), LAMBDA rhs :
         Let(Ret(rhs, ASTNodeOp2("OPERATION", s1.tok.lexeme, lhs.node, rhs.node)),
             LAMBDA lhs1 : ParseAddSubLoop(lhs1))))
    ELSE s0)

ParseAddSub(s) == Bind(ParseMulDivMod(s), LAMBDA lhs : ParseAddSubLoop(lhs))

ParseMulDivModLoop(lhs) ==
  Bind(CurToken(lhs), LAMBDA s0 :
    IF Cur(s0).lexeme = "*" \/ Cur(s0).lexeme = "/" \/ Cur(s0).lexeme = "%"
    THEN Bind(ConsumeToken(s0), LAMBDA s1 :
         Bind(ParseExponentiation(s1), LAMBDA rhs :
         Let(Ret(rhs, ASTNodeOp2("OPERATION", s1.tok.lexeme, lhs.node, rhs.node)),
             LAMBDA lhs1 : ParseMulDivModLoop(lhs1))))
    ELSE s0)

ParseMulDivMod(s) ==
  Bind(ParseExponentiation(s), LAMBDA lhs : ParseMulDivModLoop(lhs))

ParseExponentiation(s) ==
  Bind(ParseTerm(s), LAMBDA lhs :
  Bind(CurToken(lhs), LAMBDA s1 :
    IF Cur(s1).lexeme = "**"
    THEN Bind(ConsumeToken(s1), LAMBDA s2 :
         Bind(ParseExponentiation(s2), LAMBDA rhs :
           Ret(rhs, ASTNodeOp2("OPERATION", "**", lhs.node, rhs.node))))
    ELSE s1))

\* mutant: the operand of unary minus is parsed at ** precedence
ParseNegateLoose(s) ==
  Bind(ParseExponentiation(s), LAMBDA rhs :
    Ret(rhs, ASTNodeOp2("OPERATION", "*", ASTNodeVal("NUMBER", Num(-1)), rhs.node)))

ParseNegate(s) ==
  Bind(ParseTerm(s), LAMBDA rhs :
    Ret(rhs, ASTNodeOp2("OPERATION", "*", ASTNodeVal("NUMBER", Num(-1)), rhs.node)))

ParseNOT(s) ==
  Bind(ParseTerm(s), LAMBDA rhs :
    Ret(rhs, ASTNodeOp1("OPERATION", "!", rhs.node)))

ParseTerm(s) ==
  Bind(CurToken(s), LAMBDA s0 :
    CASE Cur(s0).id = "ID_NUMBER" ->
           Bind(ConsumeToken(s0), LAMBDA s1 :
             Ret(s1, ASTNodeVal("NUMBER", Stod(s1.tok.lexeme))))
      [] Cur(s0).id = "ID_ID" ->
           Bind(ConsumeToken(s0), LAMBDA s1 :
           Bind(FindVar(s1, s1.tok.lexeme), LAMBDA s2 :
             Ret(s2, ASTNodeVar("IDENTIFIER", s2.ret))))
      [] Cur(s0).id = "ID_OPEN_PARENTHESIS" ->
           Bind(ExpectToken(s0, "ID_OPEN_PARENTHESIS"), LAMBDA s1 :
           Bind(ParseExpr(s1), LAMBDA subexpression :
           Bind(ExpectToken(subexpression, "ID_CLOSE_PARENTHESIS"), LAMBDA s3 :
             Ret(s3, subexpression.node))))
      [] Cur(s0).id = "ID_MATH" ->
           IF Cur(s0).lexeme = "-"
           THEN Bind(ConsumeToken(s0), LAMBDA s1 : ParseNegate(s1))
           ELSE Fatal(s0, "Unexpected token")
      [] Cur(s0).id = "ID_NOT" ->
           Bind(ConsumeToken(s0), LAMBDA s1 : ParseNOT(s1))
      [] OTHER -> Fatal(s0, "Unexpected token"))

RECURSIVE PrintPieces(_, _, _, _)
\* the loop of ParsePrint over the pieces of a string literal, from piece i.
\* The name of an {identifier} piece is its text without the braces
\* (substr(1, length - 2))
PrintPieces(s, node, pieces, i) ==
  IF i > Len(pieces) THEN Ret(s, node)
  ELSE IF pieces[i].id = "ID_IDENTIFIER"
  THEN Bind(FindVar(s, pieces[i].name), LAMBDA s1 :
       Let(AddChild(node, ASTNodeVar("IDENTIFIER", s1.ret)), LAMBDA node1 :
         PrintPieces(s1, node1, pieces, i + 1)))
  ELSE Let(AddChild(node, ASTNodeLit("STRING", pieces[i].lexeme)), LAMBDA node1 :
         PrintPieces(s, node1, pieces, i + 1))

ParsePrint(s) ==
  Bind(ExpectToken(s, "ID_PRINT"), LAMBDA s1 :
  Bind(ExpectToken(s1, "ID_OPEN_PARENTHESIS"), LAMBDA s2 :
  Bind(IfToken(s2, "ID_STRING"), LAMBDA s3 :
  Bind(IF s3.got THEN PrintPieces(s3, ASTNode("PRINT"), s3.tok.pieces, 1)
       ELSE Bind(ParseExpr(s3), LAMBDA expr :
              Ret(expr, AddChild(ASTNode("PRINT"), expr.node))), LAMBDA s4 :
  Bind(ExpectToken(s4, "ID_CLOSE_PARENTHESIS"), LAMBDA s5 :
  Bind(ExpectToken(s5, "ID_ENDLINE"), LAMBDA s6 :
  Ret(s6, s4.node)))))))

ParseIF(s) ==
  Bind(ExpectToken(s, "ID_IF"), LAMBDA s1 :
  Bind(ExpectToken(s1, "ID_OPEN_PARENTHESIS"), LAMBDA s2 :
  Bind(CurToken(s2), LAMBDA s2c :
    IF Cur(s2c).id = "ID_CLOSE_PARENTHESIS"
    THEN Fatal(s2c, "Expected condition body, found empty condition")
    ELSE Bind(ParseExpr(s2c), LAMBDA s3 :
         Let(AddChild(ASTNode("CONDITIONAL"), s3.node), LAMBDA node1 :
         Bind(ExpectToken(s3, "ID_CLOSE_PARENTHESIS"), LAMBDA s4 :
         Bind(ParseStatement(s4), LAMBDA s5 :
         Let(AddChild(node1, s5.node), LAMBDA node2 :
         Bind(IfToken(s5, "ID_ELSE"), LAMBDA s6 :
           IF s6.got
           THEN Bind(ParseStatement(s6), LAMBDA s7 :
                  Ret(s7, AddChild(node2, s7.node)))
           ELSE Ret(s6, node2))))))))))

ParseWhile(s) ==
  Bind(ExpectToken(s, "ID_WHILE"), LAMBDA s1 :
  Bind(ExpectToken(s1, "ID_OPEN_PARENTHESIS"), LAMBDA s2 :
  Bind(ParseExpr(s2), LAMBDA s3 :
  Let(AddChild(ASTNode("WHILE"), s3.node), LAMBDA node1 :
  Bind(ExpectToken(s3, "ID_CLOSE_PARENTHESIS"), LAMBDA s4 :
  Bind(ParseStatement(s4), LAMBDA s5 :
  Ret(s5, AddChild(node1, s5.node))))))))

\* the expression statements of ParseStatement: ParseExpr, then `;`
ParseExprStatement(s) ==
  Bind(ParseExpr(s), LAMBDA s1 :
  Bind(ExpectToken(s1, "ID_ENDLINE"), LAMBDA s2 :
  Ret(s2, s1.node)))

ParseStatement(s) ==
  Bind(CurToken(s), LAMBDA s0 :
    CASE Cur(s0).id = "ID_SCOPE_Start" -> ParseScope(s0)
      [] Cur(s0).id = "ID_VAR" -> ParseDecl(s0)
      [] Cur(s0).id = "ID_ID" -> ParseExprStatement(s0)
      [] Cur(s0).id = "ID_PRINT" -> ParsePrint(s0)
      [] Cur(s0).id = "ID_IF" -> ParseIF(s0)
      [] Cur(s0).id = "ID_WHILE" -> ParseWhile(s0)
      [] Cur(s0).id = "ID_NUMBER" -> ParseExprStatement(s0)
      [] OTHER -> Fatal(s0, "Unexpected token"))

\* the parser state of a MacroCalc object constructed on a token sequence:
\* cursor 0, a fresh SymbolTable (one empty frame, no variables)
ParserInit(toks) ==
  [toks |-> toks, idx |-> 0, scope_stack |-> <<EmptyScope>>,
   all_variables |-> <<>>, err |-> "none", node |-> ASTNode("SCOPE"),
   ret |-> 0, tok |-> tEnd, got |-> FALSE]

RECURSIVE ParseLoop(_, _)
\* MacroCalc::Parse as a whole; .node is the root scope it builds
ParseLoop(s, rootnode) ==
  IF s.idx < Len(s.toks)
  THEN Bind(ParseStatement(s), LAMBDA s1 :
       Let(AddChild(rootnode, s1.node), LAMBDA root1 : ParseLoop(s1, root1)))
  ELSE Ret(s, rootnode)

Parse(toks) == ParseLoop(ParserInit(toks), ASTNode("SCOPE"))

(***************************************************************************)
(* ASTNode, the evaluator.  An evaluator state e is the record             *)
(*   [all_variables, out, log, err, fuel, ndebug, has, val]                *)
(* out is what has been written to std::cout, log the table reads and      *)
(* writes performed so far, has / val the std::optional<double> a Run      *)
(* returns.  ndebug tells whether the build compiles the asserts out.      *)
(***************************************************************************)
OutNum(v) == [kind |-> "num", v |-> v, s |-> ""]
OutStr(str) == [kind |-> "str", v |-> Zero, s |-> str]
OutEndl == [kind |-> "endl", v |-> Zero, s |-> ""]

\* return std::nullopt / return v
NoVal(e) == IF Ok(e) THEN [e EXCEPT !.has = FALSE] ELSE e
Val(e, v) ==
  IF ~Ok(e) THEN e
  ELSE IF v = Unmodelled THEN Fatal(e, "unmodelled value")
  ELSE [e EXCEPT !.has = TRUE, !.val = v]

\* a failed assert(): abort, or what follows it when asserts are compiled out
AssertFails(e, otherwise) ==
  IF e.ndebug THEN Fatal(e, otherwise) ELSE Fatal(e, "assert")

RECURSIVE Run(_, _), RunExpect(_, _), RunChildren(_, _, _), RunPrintLoop(_, _, _)
RECURSIVE RunScope(_, _), RunPrint(_, _), RunAssign(_, _), RunIdentifier(_, _)
RECURSIVE RunConditional(_, _), RunOperation(_, _), RunWhile(_, _), RunWhileLoop(_, _)
RECURSIVE RunWhileLoopBodyFirst(_, _)

\* mutant: an assignment is a statement, it returns no value
RunAssignSilent(node, e) ==
  CASE node.type = "EMPTY" -> NoVal(e)
    [] node.type = "SCOPE" -> Bind(RunScope(node, e), LAMBDA r : NoVal(r))
    [] node.type = "PRINT" -> Bind(RunPrint(node, e), LAMBDA r : NoVal(r))
    [] node.type = "ASSIGN" -> Bind(RunAssign(node, e), LAMBDA r : NoVal(r))
    [] node.type = "IDENTIFIER" -> RunIdentifier(node, e)
    [] node.type = "CONDITIONAL" -> Bind(RunConditional(node, e), LAMBDA r : NoVal(r))
    [] node.type = "OPERATION" -> RunOperation(node, e)
    [] node.type = "NUMBER" -> Val(e, node.value)
    [] node.type = "WHILE" -> Bind(RunWhile(node, e), LAMBDA r : NoVal(r))
    [] OTHER -> IF e.ndebug THEN NoVal(e) ELSE Fatal(e, "assert")

Run(node, e) ==
  CASE node.type = "EMPTY" -> NoVal(e)
    [] node.type = "SCOPE" -> Bind(RunScope(node, e), LAMBDA r : NoVal(r))
    [] node.type = "PRINT" -> Bind(RunPrint(node, e), LAMBDA r : NoVal(r))
    [] node.type = "ASSIGN" -> RunAssign(node, e)
    [] node.type = "IDENTIFIER" -> RunIdentifier(node, e)
    [] node.type = "CONDITIONAL" -> Bind(RunConditional(node, e), LAMBDA r : NoVal(r))
    [] node.type = "OPERATION" -> RunOperation(node, e)
    [] node.type = "NUMBER" -> Val(e, node.value)
    [] node.type = "WHILE" -> Bind(RunWhile(node, e), LAMBDA r : NoVal(r))
    [] OTHER -> IF e.ndebug THEN NoVal(e) ELSE Fatal(e, "assert")

RunExpect(node, e) ==
  Bind(Run(node, e), LAMBDA result :
    IF result.has THEN result
    ELSE Fatal(result, "Child did not return value!"))

\* for (ASTNode &child : children) child.Run(symbols), from child i
RunChildren(children, i, e) ==
  IF i > Len(children) THEN e
  ELSE Bind(Run(children[i], e), LAMBDA r : RunChildren(children, i + 1, r))

\* mutant: the records first written inside the block are as they were
\* before it when the block ends
RunScopeLocal(node, e) ==
  Bind(RunChildren(node.children, 1, e), LAMBDA r :
    [r EXCEPT !.all_variables =
       [k \in DOMAIN @ |-> IF e.all_variables[k].initiated THEN @[k]
                           ELSE e.all_variables[k]]])

RunScope(node, e) == RunChildren(node.children, 1, e)

RunPrintLoop(children, i, e) ==
  IF i > Len(children) THEN e
  ELSE IF children[i].type = "STRING"
  THEN Let([e EXCEPT !.out = Append(@, OutStr(children[i].literal))], LAMBDA r :
         RunPrintLoop(children, i + 1, r))
  ELSE Bind(RunExpect(children[i], e), LAMBDA v :
       Let([v EXCEPT !.out = Append(@, OutNum(v.val))], LAMBDA r :
         RunPrintLoop(children, i + 1, r)))

RunPrint(node, e) ==
  Bind(RunPrintLoop(node.children, 1, e), LAMBDA r :
    [r EXCEPT !.out = Append(@, OutEndl)])

\* mutant: the assignment writes its value to every record
RunAssignEvery(node, e) ==
  IF Len(node.children) # 2 THEN AssertFails(e, "out_of_range")
  ELSE Bind(RunExpect(node.children[2], e), LAMBDA rvalue :
       Bind(SetValue(rvalue, node.children[1].var_id, rvalue.val), LAMBDA r :
         Val([r EXCEPT !.all_variables =
                [k \in DOMAIN @ |-> [@[k] EXCEPT !.value = rvalue.val,
                                                 !.initiated = TRUE]]],
             rvalue.val)))

RunAssign(node, e) ==
  IF Len(node.children) # 2 THEN AssertFails(e, "out_of_range")
  ELSE Bind(RunExpect(node.children[2], e), LAMBDA rvalue :
       Bind(SetValue(rvalue, node.children[1].var_id, rvalue.val), LAMBDA r :
         Val(r, rvalue.val)))

RunIdentifier(node, e) ==
  IF (node.value # Zero \/ node.literal # "") /\ ~e.ndebug THEN Fatal(e, "assert")
  ELSE GetValue(e, node.var_id)

RunConditional(node, e) ==
  IF Len(node.children) \notin {2, 3} /\ ~e.ndebug THEN Fatal(e, "assert")
  \* children[0] / children[1] of a shorter vector: undefined behaviour
  ELSE IF Len(node.children) = 0 THEN Fatal(e, "undefined behaviour")
  ELSE Bind(RunExpect(node.children[1], e), LAMBDA condition :
         IF ~IsZero(condition.val)
         THEN IF Len(node.children) < 2
              THEN Fatal(condition, "undefined behaviour")
              ELSE Run(node.children[2], condition)
         ELSE IF Len(node.children) < 3 THEN condition
         ELSE Run(node.children[3], condition))

\* mutant: the zero checks of / and % look at the left operand
ArithCheckLeft(literal, left, right, e) ==
  CASE literal = "**" -> Val(e, Pow(left, right))
    [] literal = "*" -> Val(e, RMul(left, right))
    [] literal = "/" ->
         IF IsZero(left) THEN Fatal(e, "Division by zero")
         ELSE Val(e, RDiv(left, right))
    [] literal = "%" ->
         IF IsZero(left) THEN Fatal(e, "Modulus by zero")
         ELSE IF TruncInt(right) = 0 THEN Fatal(e, "undefined behaviour")
         ELSE Val(e, Num(CRem(TruncInt(left), TruncInt(right))))
    [] literal = "+" -> Val(e, RAdd(left, right))
    [] literal = "-" -> Val(e, RSub(left, right))
    [] literal = "<" -> Val(e, FromBool(RLt(left, right)))
    [] literal = ">" -> Val(e, FromBool(RLt(right, left)))
    [] literal = "<=" -> Val(e, FromBool(RLe(left, right)))
    [] literal = ">=" -> Val(e, FromBool(RLe(right, left)))
    [] literal = "==" -> Val(e, FromBool(left = right))
    [] literal = "!=" -> Val(e, FromBool(left # right))
    [] OTHER -> Fatal(e, "Tried to run unknown operator")

\* the binary operators that evaluate both operands
Arith(literal, left, right, e) ==
  CASE literal = "**" -> Val(e, Pow(left, right))
    [] literal = "*" -> Val(e, RMul(left, right))
    [] literal = "/" ->
         IF IsZero(right) THEN Fatal(e, "Division by zero")
         ELSE Val(e, RDiv(left, right))
    [] literal = "%" ->
         IF IsZero(right) THEN Fatal(e, "Modulus by zero")
         \* an int % 0: undefined behaviour
         ELSE IF TruncInt(right) = 0 THEN Fatal(e, "undefined behaviour")
         ELSE Val(e, Num(CRem(TruncInt(left), TruncInt(right))))
    [] literal = "+" -> Val(e, RAdd(left, right))
    [] literal = "-" -> Val(e, RSub(left, right))
    [] literal = "<" -> Val(e, FromBool(RLt(left, right)))
    [] literal = ">" -> Val(e, FromBool(RLt(right, left)))
    [] literal = "<=" -> Val(e, FromBool(RLe(left, right)))
    [] literal = ">=" -> Val(e, FromBool(RLe(right, left)))
    [] literal = "==" -> Val(e, FromBool(left = right))
    [] literal = "!=" -> Val(e, FromBool(left # right))
    [] OTHER -> Fatal(e, "Tried to run unknown operator")

\* mutant: && and || evaluate both operands before they decide
RunOperationEager(node, e) ==
  IF Len(node.children) < 1 THEN AssertFails(e, "out_of_range")
  ELSE Bind(RunExpect(node.children[1], e), LAMBDA left :
         IF node.literal = "!" THEN Val(left, FromBool(IsZero(left.val)))
         ELSE IF node.literal = "-" /\ Len(node.children) = 1
         THEN Val(left, RMul(Num(-1), left.val))
         ELSE IF Len(node.children) # 2 THEN AssertFails(left, "out_of_range")
         ELSE Bind(RunExpect(node.children[2], left), LAMBDA right :
                IF node.literal = "&&"
                THEN Val(right, FromBool(~IsZero(left.val) /\ ~IsZero(right.val)))
                ELSE IF node.literal = "||"
                THEN Val(right, FromBool(~IsZero(left.val) \/ ~IsZero(right.val)))
                ELSE Arith(node.literal, left.val, right.val, right)))

RunOperation(node, e) ==
  IF Len(node.children) < 1 THEN AssertFails(e, "out_of_range")
  ELSE Bind(RunExpect(node.children[1], e), LAMBDA left :
         IF node.literal = "!" THEN Val(left, FromBool(IsZero(left.val)))
         ELSE IF node.literal = "-" /\ Len(node.children) = 1
         THEN Val(left, RMul(Num(-1), left.val))
         ELSE IF Len(node.children) # 2
         THEN AssertFails(left, IF node.literal \in {"&&", "||"}
                                THEN "undefined behaviour" ELSE "out_of_range")
         ELSE IF node.literal = "&&"
         THEN IF IsZero(left.val) THEN Val(left, Zero)
              ELSE Bind(RunExpect(node.children[2], left), LAMBDA right :
                     Val(right, FromBool(~IsZero(right.val))))
         ELSE IF node.literal = "||"
         THEN IF ~IsZero(left.val) THEN Val(left, One)
              ELSE Bind(RunExpect(node.children[2], left), LAMBDA right :
                     Val(right, FromBool(~IsZero(right.val))))
         \* the right operand is evaluated only past the short-circuits
         ELSE Bind(RunExpect(node.children[2], left), LAMBDA right :
                Arith(node.literal, left.val, right.val, right)))

\* mutant: do body.Run(symbols); while (condition.RunExpect(symbols));
RunWhileLoopBodyFirst(node, e) ==
  IF e.fuel = 0 THEN Fatal(e, "cut off")
  ELSE Bind(Run(node.children[2], [e EXCEPT !.fuel = @ - 1]), LAMBDA b :
       Bind(RunExpect(node.children[1], b), LAMBDA c :
         IF IsZero(c.val) THEN c ELSE RunWhileLoopBodyFirst(node, c)))

\* while (condition.RunExpect(symbols)) body.Run(symbols);  a run that has
\* used up its fuel is cut off
RunWhileLoop(node, e) ==
  Bind(RunExpect(node.children[1], e), LAMBDA c :
    IF IsZero(c.val) THEN c
    ELSE IF c.fuel = 0 THEN Fatal(c, "cut off")
    ELSE Bind(Run(node.children[2], [c EXCEPT !.fuel = @ - 1]), LAMBDA b :
           RunWhileLoop(node, b)))

RunWhile(node, e) ==
  IF (Len(node.children) # 2 \/ node.value # Zero \/ node.literal # "")
     /\ ~e.ndebug
  THEN Fatal(e, "assert")
  \* children[0] / children[1] of a shorter vector: undefined behaviour
  ELSE IF Len(node.children) < 2 THEN Fatal(e, "undefined behaviour")
  ELSE RunWhileLoop(node, e)

(***************************************************************************)
(* Programs: token sequences as the lexer produces them.                   *)
(***************************************************************************)
Lex(i) ==
  CASE i = 0 -> "0" [] i = 1 -> "1" [] i = 2 -> "2" [] i = 3 -> "3"
    [] i = 4 -> "4" [] i = 5 -> "5" [] i = 7 -> "7" [] i = 8 -> "8"
    [] OTHER -> "?"
ELit(i) == <<tNum(Lex(i))>>
EId(n) == <<tId(n)>>
EBin(a, op, b) == a \o <<tOp(op)>> \o b
EPar(E) == <<tLP>> \o E \o <<tRP>>
ENeg(E) == <<tOp("-")>> \o E
ENot(E) == <<tNot>> \o E
EAsg(n, E) == <<tId(n), tAsg>> \o E

SDecl(n) == <<tVar, tId(n), tEnd>>
SDeclInit(n, E) == <<tVar, tId(n), tAsg>> \o E \o <<tEnd>>
SAssign(n, E) == EAsg(n, E) \o <<tEnd>>
SExpr(E) == E \o <<tEnd>>
SPrint(E) == <<tPrint, tLP>> \o E \o <<tRP, tEnd>>
SPrintStr(pieces) == <<tPrint, tLP, StrTok(pieces), tRP, tEnd>>
SBlock(body) == <<tLB>> \o body \o <<tRB>>
SIf(E, S) == <<tIf, tLP>> \o E \o <<tRP>> \o S
SIfElse(E, S1, S2) == SIf(E, S1) \o <<tElse>> \o S2
SWhile(E, S) == <<tWhile, tLP>> \o E \o <<tRP>> \o S

Lits == 0..MaxLit

\* print(a op1 b op2 c);
Prog3(a, op1, b, op2, c) == SPrint(EBin(EBin(ELit(a), op1, ELit(b)), op2, ELit(c)))

\* the expressions of the specification's section 8 and of RunOperationTest
Ex_1p2m3 == EBin(EBin(ELit(1), "+", ELit(2)), "*", ELit(3))
Ex_Eq7 == EBin(EPar(Ex_1p2m3), "==", ELit(7))
Ex_8m3m2 == EBin(EBin(ELit(8), "-", ELit(3)), "-", ELit(2))
Ex_2p3p2 == EBin(EBin(ELit(2), "**", ELit(3)), "**", ELit(2))
Ex_NotEq7 == ENot(EPar(Ex_Eq7))
Ex_Neg2p2 == EBin(ENeg(ELit(2)), "**", ELit(2))
Ex_Short == EBin(EPar(Ex_Eq7), "||", EPar(EBin(ELit(1), "/", ELit(0))))

Examples ==
  {SPrint(E) : E \in {Ex_1p2m3, Ex_Eq7, Ex_8m3m2, Ex_2p3p2, Ex_NotEq7,
                      Ex_Neg2p2, Ex_Short}}

\* print(-a op b);  print(!a op b);  print(a op -b);  print(a op !b);
ProgU1(u, a, op, b) ==
  SPrint(EBin(IF u = "-" THEN ENeg(ELit(a)) ELSE ENot(ELit(a)), op, ELit(b)))
ProgU2(u, a, op, b) ==
  SPrint(EBin(ELit(a), op, IF u = "-" THEN ENeg(ELit(b)) ELSE ENot(ELit(b))))

\* right operands whose evaluation is visible: a fatal error, or a write
RightOperands ==
  {EBin(ELit(1), "/", ELit(0)), EBin(ELit(1), "%", ELit(0)), EId("y"),
   EAsg("x", ELit(5)), ELit(0), ELit(2)}

\* var x = 0; var y; print(a op (R)); print(x);
ShortProg(a, op, R) ==
  SDeclInit("x", ELit(0)) \o SDecl("y")
  \o SPrint(EBin(ELit(a), op, EPar(R))) \o SPrint(EId("x"))

\* var x; var y; print((x = a) op (y = b)); print(7);
DivProg(a, op, b) ==
  SDecl("x") \o SDecl("y")
  \o SPrint(EBin(EPar(EAsg("x", ELit(a))), op, EPar(EAsg("y", ELit(b)))))
  \o SPrint(ELit(7))

DivOps == {"/", "%"}

ExprPrograms ==
  {Prog3(a, op1, b, op2, c) : a \in Lits, b \in Lits, c \in Lits,
                              op1 \in BinOps, op2 \in BinOps}
  \cup {ProgU1(u, a, op, b) : u \in {"-", "!"}, a \in Lits, op \in BinOps, b \in Lits}
  \cup {ProgU2(u, a, op, b) : u \in {"-", "!"}, a \in Lits, op \in BinOps, b \in Lits}
  \cup {ShortProg(a, op, R) : a \in Lits, op \in BoolOps, R \in RightOperands}
  \cup {DivProg(a, op, b) : a \in Lits, op \in DivOps, b \in Lits}
  \cup Examples

(***************************************************************************)
(* The state machine: main() constructs MacroCalc (which parses), calls    *)
(* Parse() again (no token is left) and then Execute().                    *)
(***************************************************************************)
InitOn(programs) ==
  /\ tokens \in programs
  /\ ndebug \in BOOLEAN
  /\ pc = "parse"
  /\ token_idx = 0
  /\ scope_stack = <<EmptyScope>>
  /\ all_variables = <<>>
  /\ root = ASTNode("SCOPE")
  /\ exec_idx = 0
  /\ out = <<>>
  /\ log = <<>>
  /\ err = "none"
  /\ fuel = MaxIter

\* the parser state the object is in
ParserState ==
  [toks |-> tokens, idx |-> token_idx, scope_stack |-> scope_stack,
   all_variables |-> all_variables, err |-> "none", node |-> ASTNode("EMPTY"),
   ret |-> 0, tok |-> tEnd, got |-> FALSE]

\* one iteration of the loop of Parse: root.AddChild(ParseStatement())
ParseStep ==
  /\ pc = "parse"
  /\ token_idx < Len(tokens)
  /\ \E s \in {ParseStatement(ParserState)} :
        /\ token_idx' = s.idx
        /\ scope_stack' = s.scope_stack
        /\ all_variables' = s.all_variables
        /\ err' = s.err
        /\ root' = IF Ok(s) THEN AddChild(root, s.node) ELSE root
        /\ pc' = IF Ok(s) THEN "parse" ELSE "failed"
  /\ UNCHANGED <<tokens, ndebug, exec_idx, out, log, fuel>>

\* mutant: Execute is called on what has been parsed so far
ParseEndEarly ==
  /\ pc = "parse"
  /\ pc' = "exec"
  /\ UNCHANGED <<tokens, ndebug, token_idx, scope_stack, all_variables, root,
                 exec_idx, out, log, err, fuel>>

\* no token is left: the constructor returns, Execute is called
ParseEnd ==
  /\ pc = "parse"
  /\ token_idx >= Len(tokens)
  /\ pc' = "exec"
  /\ UNCHANGED <<tokens, ndebug, token_idx, scope_stack, all_variables, root,
                 exec_idx, out, log, err, fuel>>

EvalState ==
  [all_variables |-> all_variables, out |-> out, log |-> log, err |-> "none",
   fuel |-> fuel, ndebug |-> ndebug, has |-> FALSE, val |-> Zero]

\* one iteration of the loop of the root's RunScope
ExecStep ==
  /\ pc = "exec"
  /\ exec_idx < Len(root.children)
  /\ \E r \in {Run(root.children[exec_idx + 1], EvalState)} :
        /\ all_variables' = r.all_variables
        /\ out' = r.out
        /\ log' = r.log
        /\ fuel' = r.fuel
        /\ err' = r.err
        /\ pc' = IF Ok(r) THEN "exec"
                 ELSE IF r.err = "cut off" THEN "cut" ELSE "failed"
  /\ exec_idx' = exec_idx + 1
  /\ UNCHANGED <<tokens, ndebug, token_idx, scope_stack, root>>

ExecEnd ==
  /\ pc = "exec"
  /\ exec_idx >= Len(root.children)
  /\ pc' = "done"
  /\ UNCHANGED <<tokens, ndebug, token_idx, scope_stack, all_variables, root,
                 exec_idx, out, log, err, fuel>>

Next == ParseStep \/ ParseEnd \/ ExecStep \/ ExecEnd

InitExpr == InitOn(ExprPrograms)
SpecExpr == InitExpr /\ [][Next]_vars

(***************************************************************************)
(* Programs with control flow:                                             *)
(*   pre  if (c) S1 [else S2]  print(x);                                   *)
(* pre declares x with or without an initializer; S1 and S2 range over the *)
(* statement forms of ParseStatement, each with an effect of its own.      *)
(***************************************************************************)
\* { x = 1; }
S_Block == SBlock(SAssign("x", ELit(1)))
\* var y;
S_Decl == SDecl("y")
\* var y = 2;
S_DeclInit == SDeclInit("y", ELit(2))
\* print(3);
S_Print == SPrint(ELit(3))
\* if (1) x = 4; else x = 5;
S_If == SIfElse(ELit(1), SAssign("x", ELit(4)), SAssign("x", ELit(5)))
\* while (x < 2) x = x + 1;
S_While ==
  SWhile(EBin(EId("x"), "<", ELit(2)), SAssign("x", EBin(EId("x"), "+", ELit(1))))
\* x = 7;
S_Expr == SAssign("x", ELit(7))

StatementForms == {S_Block, S_Decl, S_DeclInit, S_Print, S_If, S_While, S_Expr}
\* the forms that write x before they read it
AssignsX == {S_Block, S_If, S_Expr}
\* no else branch
NoElse == <<>>

PreInit == SDeclInit("x", ELit(0))
PreDecl == SDecl("x")
Pres == {PreInit, PreDecl}
Post == SPrint(EId("x"))

IfProg(pre, c, S1, S2) ==
  pre \o (IF S2 = NoElse THEN SIf(ELit(c), S1) ELSE SIfElse(ELit(c), S1, S2)) \o Post

\* var x; var i = 0; while (i < c) { x = 5; i = i + 1; } print(x);
LoopProg(c) ==
  SDecl("x") \o SDeclInit("i", ELit(0))
  \o SWhile(EBin(EId("i"), "<", ELit(c)),
            SBlock(SAssign("x", ELit(5))
                   \o SAssign("i", EBin(EId("i"), "+", ELit(1)))))
  \o Post

CtlPrograms ==
  {IfProg(pre, c, S1, S2) : pre \in Pres, c \in Lits, S1 \in StatementForms,
                            S2 \in StatementForms \cup {NoElse}}
  \cup {LoopProg(c) : c \in Lits}
  \cup {pre \o Post : pre \in Pres}

InitCtl == InitOn(CtlPrograms)
SpecCtl == InitCtl /\ [][Next]_vars

(***************************************************************************)
(* Programs with scopes:  outer  { inner }  after                          *)
(* outer is empty or a declaration of x, inner up to MaxInner statements   *)
(* and after at most one statement, each one of: a declaration of x (none, *)
(* a literal, or x itself as initializer), an assignment, a print of x as  *)
(* an expression or as a {x} piece of a string, a nested block.            *)
(***************************************************************************)
MaxInner == 2

\* print("x={x}");
S_PrintStr ==
  SPrintStr(<<Piece("ID_LITERAL", "x=", ""), Piece("ID_IDENTIFIER", "{x}", "x")>>)

ScopeStatements ==
  {SDecl("x"), SDeclInit("x", ELit(2)), SDeclInit("x", EId("x")),
   SAssign("x", ELit(3)), Post, S_PrintStr, SBlock(SDeclInit("x", ELit(4)))}

RECURSIVE Concat(_, _)
\* the statements ss[i..] one after the other
Concat(ss, i) == IF i > Len(ss) THEN <<>> ELSE ss[i] \o Concat(ss, i + 1)

\* the statement sequences of at most n statements
Bodies(n) == UNION {{Concat(ss, 1) : ss \in [1..m -> ScopeStatements]} : m \in 0..n}

\* var x = 1; { var x = 2; x = 3; print(x); } print(x);
Ex_Shadow ==
  SDeclInit("x", ELit(1))
  \o SBlock(SDeclInit("x", ELit(2)) \o SAssign("x", ELit(3)) \o Post)
  \o Post

ScopePrograms ==
  {outer \o SBlock(inner) \o after :
     outer \in {<<>>, SDecl("x"), SDeclInit("x", ELit(1))},
     inner \in Bodies(MaxInner), after \in Bodies(1)}
  \cup {Ex_Shadow}

InitScope == InitOn(ScopePrograms)
SpecScope == InitScope /\ [][Next]_vars

(***************************************************************************)
(* Programs for the statement and expression syntax.                       *)
(***************************************************************************)
\* print(7); the statement that follows the one under test
Follower == SPrint(ELit(7))

\* comparisons in a row and in parentheses, as an expression statement, as
\* the argument of print and as an initializer
CmpOps == EqualsOps \cup CompareOps
Contexts == {"stmt", "print", "init"}
InContext(ctx, E) ==
  CASE ctx = "stmt" -> SExpr(E)
    [] ctx = "print" -> SPrint(E)
    [] ctx = "init" -> SDeclInit("z", E)
\* the number of tokens of a context before its expression
Before(ctx) == CASE ctx = "stmt" -> 0 [] ctx = "print" -> 2 [] ctx = "init" -> 3

\* 1 op1 2 op2 1
ChainExpr(op1, op2) == EBin(EBin(ELit(1), op1, ELit(2)), op2, ELit(1))
\* (1 op1 2) op2 1
ParenLeft(op1, op2) == EBin(EPar(EBin(ELit(1), op1, ELit(2))), op2, ELit(1))
\* 1 op1 (2 op2 1)
ParenRight(op1, op2) == EBin(ELit(1), op1, EPar(EBin(ELit(2), op2, ELit(1))))
\* 1 r1 2 e 0 r2 2
BothSides(r1, e, r2) ==
  EBin(EBin(EBin(ELit(1), r1, ELit(2)), e, ELit(0)), r2, ELit(2))

ComparePrograms ==
  {InContext(ctx, ChainExpr(op1, op2)) \o Follower :
     ctx \in Contexts, op1 \in CmpOps, op2 \in CmpOps}
  \cup {InContext(ctx, ParenLeft(op1, op2)) \o Follower :
          ctx \in Contexts, op1 \in CmpOps, op2 \in CmpOps}
  \cup {InContext(ctx, ParenRight(op1, op2)) \o Follower :
          ctx \in Contexts, op1 \in CmpOps, op2 \in CmpOps}
  \cup {InContext(ctx, BothSides(r1, e, r2)) \o Follower :
          ctx \in Contexts, r1 \in CompareOps, e \in EqualsOps, r2 \in CompareOps}

\* a statement followed by another statement, by the "}" of its block, or by
\* the end of the token sequence
Positions == {"followed", "closing", "last"}
Place(pos, S) ==
  CASE pos = "followed" -> S \o Follower
    [] pos = "closing" -> SBlock(S) \o Follower
    [] pos = "last" -> S

\* the statements under the if without else
Branches == {SPrint(ELit(1)), SBlock(SPrint(ELit(1)))}

\* if (c) S with no else
IfPrograms ==
  {Place(pos, SIf(ELit(c), S)) : pos \in Positions, c \in 0..1, S \in Branches}

\* expressions by their first token: an identifier, a number, "(", unary "-"
\* and "!"
Assigning == {EAsg("x", ELit(2)), EPar(EAsg("x", ELit(2)))}
StatementExprs ==
  Assigning
  \cup {EId("x"), EBin(EId("x"), "+", ELit(1)), ELit(2), EBin(ELit(1), "+", EId("x")),
        EPar(EId("x")), EBin(EPar(EId("x")), "+", ELit(1)),
        ENeg(EId("x")), ENeg(ELit(1)), ENot(EId("x")), ENot(ELit(1))}

\* var x = 1; E; print(x);
ExprStatement(E) == SDeclInit("x", ELit(1)) \o SExpr(E) \o SPrint(EId("x"))

ExprStatementPrograms == {ExprStatement(E) : E \in StatementExprs}

\* print(E); and print(E)
PrintWith(semi, E) == <<tPrint, tLP>> \o E \o <<tRP>> \o (IF semi THEN <<tEnd>> ELSE <<>>)

PrintArgs == {ELit(1), EBin(ELit(1), "+", ELit(2))}

PrintPrograms ==
  {Place(pos, PrintWith(semi, E)) : pos \in Positions, semi \in BOOLEAN, E \in PrintArgs}

\* var x = 1; print(x); x = 2;
Prefix == SDeclInit("x", ELit(1)) \o SPrint(EId("x")) \o SAssign("x", ELit(2))

\* the statements the parser stops in, by the error: print(1 + ); and 1 = 2;,
\* print(1 at the end of the tokens, print(y); and while (0) { print(y); }
\* for an undeclared y, var x; for the declared x
LateError(kind) ==
  CASE kind = "syntax" -> <<tPrint, tLP, tNum("1"), tOp("+"), tRP, tEnd>>
    [] kind = "target" -> SExpr(ELit(1) \o <<tAsg>> \o ELit(2))
    [] kind = "eof" -> <<tPrint, tLP, tNum("1")>>
    [] kind = "undeclared" -> SPrint(EId("y"))
    [] kind = "unreached" -> SWhile(ELit(0), SBlock(SPrint(EId("y"))))
    [] kind = "redeclared" -> SDecl("x")
ErrorKinds == {"syntax", "target", "eof", "undeclared", "unreached", "redeclared"}

\* the program with the error after the prefix; more statements follow it
\* unless the error is the end of the tokens
Late(kind) == Prefix \o LateError(kind) \o (IF kind = "eof" THEN <<>> ELSE Follower)

LatePrograms == {Late(kind) : kind \in ErrorKinds} \cup {Prefix \o Follower}

\* the statements under if, else and while, one of each kind with the type
\* of its node; the declarations declare name
Substatement(type, name) ==
  CASE type = "EMPTY" -> SDecl(name)
    [] type = "ASSIGN" -> SDeclInit(name, ELit(1))
    [] type = "PRINT" -> SPrint(ELit(1))
    [] type = "SCOPE" -> SBlock(SPrint(ELit(1)))
    [] type = "NUMBER" -> SExpr(ELit(1))
    [] type = "CONDITIONAL" -> SIfElse(ELit(1), SPrint(ELit(1)), SPrint(ELit(2)))
    [] type = "WHILE" -> SWhile(ELit(0), SPrint(ELit(1)))
SubstatementTypes ==
  {"EMPTY", "ASSIGN", "PRINT", "SCOPE", "NUMBER", "CONDITIONAL", "WHILE"}

\* if (0) S print(7);   if (0) S1 else S2 print(7);   while (0) S print(7);
IfOf(t) == SIf(ELit(0), Substatement(t, "y")) \o Follower
IfElseOf(t1, t2) ==
  SIfElse(ELit(0), Substatement(t1, "y"), Substatement(t2, "z")) \o Follower
WhileOf(t) == SWhile(ELit(0), Substatement(t, "y")) \o Follower

ArityPrograms ==
  {IfOf(t) : t \in SubstatementTypes} \cup {WhileOf(t) : t \in SubstatementTypes}
  \cup {IfElseOf(t1, t2) : t1 \in SubstatementTypes, t2 \in SubstatementTypes}

\* expressions of the four kinds of node with a value: a number, an
\* identifier, an operation, an assignment (bare and in parentheses)
ValueExprs ==
  {ELit(1), EId("x"), EBin(EId("x"), "+", ELit(1)), EAsg("x", ELit(0)),
   EPar(EAsg("x", ELit(2)))}

\* the places where a value is demanded
ValuePlaces ==
  {"print", "assign", "init", "left", "right", "negate", "not", "if", "while"}
Demand(place, E) ==
  CASE place = "print" -> SPrint(E)
    [] place = "assign" -> SAssign("x", E)
    [] place = "init" -> SDeclInit("y", E)
    [] place = "left" -> SPrint(EBin(EPar(E), "+", ELit(1)))
    [] place = "right" -> SPrint(EBin(ELit(1), "+", EPar(E)))
    [] place = "negate" -> SPrint(ENeg(EPar(E)))
    [] place = "not" -> SPrint(ENot(EPar(E)))
    [] place = "if" -> SIfElse(E, SPrint(ELit(1)), SPrint(ELit(2)))
    [] place = "while" -> SWhile(E, SAssign("x", ELit(0)))

\* var x = 1; the statement that demands the value of E; print(x);
ValueProg(place, E) == SDeclInit("x", ELit(1)) \o Demand(place, E) \o Post

ValuePrograms == {ValueProg(place, E) : place \in ValuePlaces, E \in ValueExprs}

SyntaxPrograms ==
  ComparePrograms \cup IfPrograms \cup ExprStatementPrograms \cup PrintPrograms
  \cup LatePrograms \cup ArityPrograms \cup ValuePrograms

InitSyntax == InitOn(SyntaxPrograms)
SpecSyntax == InitSyntax /\ [][Next]_vars

(***************************************************************************)
(* Programs for the evaluation of assignments, loops and the modulus.      *)
(***************************************************************************)
\* the right sides of the assignments: a literal, a read of i, the
\* assignment i = i + 1, the sum i + 1
RightSides ==
  {ELit(v) : v \in Lits}
  \cup {EId("i"), EAsg("i", EBin(EId("i"), "+", ELit(1))), EBin(EId("i"), "+", ELit(1))}

\* var x; var y; var i = 1; x = y = E; print(x); print(y); print(i);
AssignChain(E) ==
  SDecl("x") \o SDecl("y") \o SDeclInit("i", ELit(1))
  \o SExpr(EAsg("x", EAsg("y", E)))
  \o SPrint(EId("x")) \o SPrint(EId("y")) \o SPrint(EId("i"))

\* var x; var i = 1; print(x = E); print(x); print(i);
AssignPrint(E) ==
  SDecl("x") \o SDeclInit("i", ELit(1))
  \o SPrint(EAsg("x", E)) \o SPrint(EId("x")) \o SPrint(EId("i"))

\* left sides that are not an identifier
LeftSides ==
  {ELit(1), EBin(EId("x"), "+", ELit(1)), EBin(ELit(1), "+", EId("x")),
   EPar(EId("x")), EPar(ELit(1)), EPar(EBin(EId("x"), "+", ELit(1))),
   ENeg(EId("x")), ENot(EId("x"))}

\* var x = 0; print(L = 2); print(x);
AssignTo(L) ==
  SDeclInit("x", ELit(0)) \o SPrint(L \o <<tAsg>> \o ELit(2)) \o SPrint(EId("x"))
\* var x = 0; x = L = 2; print(x);
AssignThrough(L) ==
  SDeclInit("x", ELit(0)) \o SExpr(EAsg("x", L \o <<tAsg>> \o ELit(2)))
  \o SPrint(EId("x"))

AssignPrograms ==
  {AssignChain(E) : E \in RightSides} \cup {AssignPrint(E) : E \in RightSides}
  \cup {AssignTo(L) : L \in LeftSides} \cup {AssignThrough(L) : L \in LeftSides}

\* var i = s; while (i < c) { print(i); i = i + 1; } print(i);
CountUp(s, c) ==
  SDeclInit("i", ELit(s))
  \o SWhile(EBin(EId("i"), "<", ELit(c)),
            SBlock(SPrint(EId("i")) \o SAssign("i", EBin(EId("i"), "+", ELit(1)))))
  \o SPrint(EId("i"))

\* var i = s; while (i) i = i - 1; print(i);
CountDown(s) ==
  SDeclInit("i", ELit(s))
  \o SWhile(EId("i"), SAssign("i", EBin(EId("i"), "-", ELit(1))))
  \o SPrint(EId("i"))

\* var i = 0; while ((i = i + 1) < c) print(i); print(i);
CountInCondition(c) ==
  SDeclInit("i", ELit(0))
  \o SWhile(EBin(EPar(EAsg("i", EBin(EId("i"), "+", ELit(1)))), "<", ELit(c)),
            SPrint(EId("i")))
  \o SPrint(EId("i"))

\* while (0) print(1);
Ex_WhileZero == SWhile(ELit(0), SPrint(ELit(1)))
\* var i = 0; while (1) i = i + 1; print(i);
Ex_Forever ==
  SDeclInit("i", ELit(0))
  \o SWhile(ELit(1), SAssign("i", EBin(EId("i"), "+", ELit(1)))) \o SPrint(EId("i"))

\* the loops whose condition becomes 0
EndingLoops ==
  {CountUp(s, c) : s \in Lits, c \in Lits} \cup {CountDown(s) : s \in Lits}
  \cup {CountInCondition(c) : c \in Lits \cup {MaxLit + 1}}
  \cup {Ex_WhileZero, Ex_WhileZero \o Follower}

LoopPrograms == EndingLoops \cup {Ex_Forever}

\* an expression with the value n / d: the literal 0.5, an integer literal,
\* its negation, or the quotient of the two in parentheses
Operand(n, d) ==
  LET int == IF n < 0 THEN EPar(ENeg(ELit(-n))) ELSE ELit(n)
  IN IF n = 1 /\ d = 2 THEN <<tNum("0.5")>>
     ELSE IF d = 1 THEN int
     ELSE EPar(EBin(int, "/", ELit(d)))

\* the operands of %: left 0, 5, 7, 5/2, -5, -5/2 and right 1, 2, 5, 1/2, 5/2
\* and their negations
LeftValues == {<<n, d>> : n \in {-5, 0, 5, 7}, d \in 1..2} \ {<<7, 2>>}
RightValues == {<<n, d>> : n \in {-5, -2, -1, 1, 2, 5}, d \in 1..2} \ {<<2, 2>>, <<-2, 2>>}

\* print(l % r); print(7);
ModProg(l, r) ==
  SPrint(EBin(Operand(l[1], l[2]), "%", Operand(r[1], r[2]))) \o Follower

ModPrograms == {ModProg(l, r) : l \in LeftValues, r \in RightValues}

\* var i = 0; while (i < c) { var x; if (i) print(x); x = i + v; i = i + 1; }
\* print(i);
DeclInLoop(c, v) ==
  SDeclInit("i", ELit(0))
  \o SWhile(EBin(EId("i"), "<", ELit(c)),
            SBlock(SDecl("x") \o SIf(EId("i"), SPrint(EId("x")))
                   \o SAssign("x", EBin(EId("i"), "+", ELit(v)))
                   \o SAssign("i", EBin(EId("i"), "+", ELit(1)))))
  \o SPrint(EId("i"))

\* var i = 0; while (i < 2) { var x; print(x); x = 1; i = i + 1; } print(i);
Ex_ReadFirst ==
  SDeclInit("i", ELit(0))
  \o SWhile(EBin(EId("i"), "<", ELit(2)),
            SBlock(SDecl("x") \o SPrint(EId("x")) \o SAssign("x", ELit(1))
                   \o SAssign("i", EBin(EId("i"), "+", ELit(1)))))
  \o SPrint(EId("i"))

DeclPrograms ==
  {DeclInLoop(c, v) : c \in Lits \cup {MaxLit + 1}, v \in Lits} \cup {Ex_ReadFirst}

RunPrograms == AssignPrograms \cup LoopPrograms \cup ModPrograms \cup DeclPrograms

InitRun == InitOn(RunPrograms)
SpecRun == InitRun /\ [][Next]_vars

\* main runs to its end: no step that can be taken is put off forever
SpecRunLive == SpecRun /\ WF_vars(Next)

(***************************************************************************)
(* Programs for the pairing of braces: every sequence of at most MaxBrace  *)
(* pieces, each a "{", a "}" or the statement print(7);                   *)
(***************************************************************************)
MaxBrace == 5

BracePieces == {<<tLB>>, <<tRB>>, Follower}

BracePrograms ==
  UNION {{Concat(ps, 1) : ps \in [1..m -> BracePieces]} : m \in 1..MaxBrace}

InitBrace == InitOn(BracePrograms)
SpecBrace == InitBrace /\ [][Next]_vars

(***************************************************************************)
(* Properties.                                                             *)
(***************************************************************************)
RECURSIVE SubNodes(_)
\* a node and all its descendants
SubNodes(n) == {n} \cup UNION {SubNodes(n.children[i]) : i \in 1..Len(n.children)}

Finished == pc \in {"done", "failed"}

\* C1: an Operation || with a nonzero left operand yields 1 and an Operation
\* && with a zero left operand yields 0, the state being the one the left
\* operand alone leaves (no error, no write, no read of the right operand);
\* otherwise the right operand is evaluated and decides: 1 if nonzero, else 0.
\* On the programs var x = 0; var y; print(a op (R)); print(x); a short-circuit
\* run ends without error, printing the result and an unchanged x.
C1_ShortCircuit ==
  /\ \A n \in SubNodes(root) :
       (n.type = "OPERATION" /\ n.literal \in BoolOps) =>
         LET left == RunExpect(n.children[1], EvalState)
             res == RunOperation(n, EvalState)
         IN Ok(left) =>
              IF n.literal = "||" /\ ~IsZero(left.val) THEN res = Val(left, One)
              ELSE IF n.literal = "&&" /\ IsZero(left.val) THEN res = Val(left, Zero)
              ELSE LET right == RunExpect(n.children[2], left)
                   IN IF Ok(right)
                      THEN res = Val(right, FromBool(~IsZero(right.val)))
                      ELSE res = right
  /\ \A a \in Lits, op \in BoolOps, R \in RightOperands :
       (tokens = ShortProg(a, op, R) /\ ((op = "||") <=> (a # 0))) =>
         /\ pc # "failed"
         /\ pc = "done" =>
              /\ out = <<OutNum(FromBool(op = "||")), OutEndl, OutNum(Zero), OutEndl>>
              /\ log = <<[op |-> "set", id |-> 0, v |-> Zero],
                         [op |-> "get", id |-> 0, v |-> Zero]>>

\* a finished run in which || short-circuited past a division by zero
C1_Witness ==
  /\ pc = "done"
  /\ err = "none"
  /\ \E a \in Lits \ {0} : tokens = ShortProg(a, "||", EBin(ELit(1), "/", ELit(0)))
  /\ out[1] = OutNum(One)

\* C6: / and % with a right operand equal to 0 end in their fatal error
\* after both operands have been evaluated, left first; no value is yielded
\* and no later statement runs.  On var x; var y; print((x = a) op (y = 0));
\* print(7); both writes are logged in order and nothing is ever printed.
C6_DivModByZero ==
  /\ \A n \in SubNodes(root) :
       (n.type = "OPERATION" /\ n.literal \in DivOps /\ Len(n.children) = 2) =>
         LET left == RunExpect(n.children[1], EvalState)
             right == RunExpect(n.children[2], left)
             res == RunOperation(n, EvalState)
         IN (Ok(left) /\ Ok(right) /\ IsZero(right.val)) =>
              res = Fatal(right, IF n.literal = "/" THEN "Division by zero"
                                 ELSE "Modulus by zero")
  /\ \A a \in Lits, op \in DivOps :
       tokens = DivProg(a, op, 0) =>
         /\ pc # "done"
         /\ out = <<>>
         /\ exec_idx <= 1
         /\ pc = "failed" =>
              /\ err = (IF op = "/" THEN "Division by zero" ELSE "Modulus by zero")
              /\ log = <<[op |-> "set", id |-> 0, v |-> Num(a)],
                         [op |-> "set", id |-> 1, v |-> Zero]>>

\* a run that ended in the modulus-by-zero error after both writes
C6_Witness ==
  /\ pc = "failed"
  /\ err = "Modulus by zero"
  /\ Len(log) = 2
  /\ \E a \in Lits : tokens = DivProg(a, "%", 0)

\* the trees the grammar of the specification defines
NumNode(i) == ASTNodeVal("NUMBER", Num(i))
OpNode(op, l, r) == [ASTNodeLit("OPERATION", op) EXCEPT !.children = <<l, r>>]
NegNode(x) == OpNode("*", NumNode(-1), x)
NotNode(x) == [ASTNodeLit("OPERATION", "!") EXCEPT !.children = <<x>>]
PrintNode(x) == [ASTNode("PRINT") EXCEPT !.children = <<x>>]
Prec(op) ==
  CASE op = "||" -> 1
    [] op = "&&" -> 2
    [] op \in EqualsOps -> 3
    [] op \in CompareOps -> 4
    [] op \in {"+", "-"} -> 5
    [] op \in {"*", "/", "%"} -> 6
    [] op = "**" -> 7
GroupsLeft(op1, op2) ==
  Prec(op1) > Prec(op2) \/ (Prec(op1) = Prec(op2) /\ op1 # "**")
NonChain(op1, op2) == Prec(op1) = Prec(op2) /\ Prec(op1) \in {3, 4}

\* the shapes print(a op1 b op2 c);  print(u a op b);  print(a op u b);
IsNumTok(t) == t.id = "ID_NUMBER"
IsUnaryTok(t) == t = tNot \/ t = tOp("-")
IsBinTok(t) == t.lexeme \in BinOps /\ t = tOp(t.lexeme)
IsProg3 ==
  /\ Len(tokens) = 9
  /\ IsNumTok(tokens[3]) /\ IsBinTok(tokens[4]) /\ IsNumTok(tokens[5])
  /\ IsBinTok(tokens[6]) /\ IsNumTok(tokens[7])
IsProgU1 ==
  /\ Len(tokens) = 8
  /\ IsUnaryTok(tokens[3]) /\ IsNumTok(tokens[4]) /\ IsBinTok(tokens[5])
  /\ IsNumTok(tokens[6])
IsProgU2 ==
  /\ Len(tokens) = 8
  /\ IsNumTok(tokens[3]) /\ IsBinTok(tokens[4]) /\ IsUnaryTok(tokens[5])
  /\ IsNumTok(tokens[6])
LitNode(t) == ASTNodeVal("NUMBER", Stod(t.lexeme))
UnaryNode(t, x) == IF t.lexeme = "-" THEN NegNode(x) ELSE NotNode(x)

\* C7: a op1 b op2 c parses to the tree the precedence and associativity of
\* the grammar give (|| < && < equality < relational < additive <
\* multiplicative < **; ** groups to the right, the others to the left), a
\* unary - or ! binds tighter than every binary operator, and the example
\* expressions print 3, 512, 7, 1, 0 and 4.
C7_Precedence ==
  /\ (IsProg3 /\ pc # "parse" /\ ~NonChain(tokens[4].lexeme, tokens[6].lexeme)) =>
       LET a == LitNode(tokens[3])
           b == LitNode(tokens[5])
           c == LitNode(tokens[7])
           op1 == tokens[4].lexeme
           op2 == tokens[6].lexeme
       IN root.children =
            <<PrintNode(IF GroupsLeft(op1, op2)
                        THEN OpNode(op2, OpNode(op1, a, b), c)
                        ELSE OpNode(op1, a, OpNode(op2, b, c)))>>
  /\ (IsProgU1 /\ pc # "parse") =>
       root.children =
         <<PrintNode(OpNode(tokens[5].lexeme,
                            UnaryNode(tokens[3], LitNode(tokens[4])),
                            LitNode(tokens[6])))>>
  /\ (IsProgU2 /\ pc # "parse") =>
       root.children =
         <<PrintNode(OpNode(tokens[4].lexeme, LitNode(tokens[3]),
                            UnaryNode(tokens[5], LitNode(tokens[6]))))>>
  /\ \A ex \in {<<Ex_8m3m2, 3>>, <<Ex_2p3p2, 512>>, <<Ex_1p2m3, 7>>, <<Ex_Eq7, 1>>,
               <<Ex_NotEq7, 0>>, <<Ex_Neg2p2, 4>>} :
       (tokens = SPrint(ex[1]) /\ pc # "parse" /\ pc # "exec") =>
         pc = "done" /\ out = <<OutNum(Num(ex[2])), OutEndl>>

\* 2 ** 3 ** 2 has been parsed and evaluated to 512
C7_Witness ==
  pc = "done" /\ tokens = SPrint(Ex_2p3p2) /\ out = <<OutNum(Num(512)), OutEndl>>

(***************************************************************************)
(* Whole runs, for comparing a program with a reference program.           *)
(***************************************************************************)
\* main: construct MacroCalc on the tokens (which parses them), Execute
Main(toks, nd) ==
  LET p == Parse(toks)
  IN IF ~Ok(p)
     THEN [all_variables |-> p.all_variables, out |-> <<>>, log |-> <<>>,
           err |-> p.err, fuel |-> MaxIter, ndebug |-> nd, has |-> FALSE,
           val |-> Zero]
     ELSE RunScope(p.node,
                   [all_variables |-> p.all_variables, out |-> <<>>, log |-> <<>>,
                    err |-> "none", fuel |-> MaxIter, ndebug |-> nd,
                    has |-> FALSE, val |-> Zero])

\* the reads and writes of a run by variable name
NamedLog(l, av) ==
  [k \in 1..Len(l) |-> [op |-> l[k].op, name |-> av[l[k].id + 1].name, v |-> l[k].v]]

\* what a run did: its output, its reads and writes, the error it ended in
Effects(e) == [out |-> e.out, log |-> NamedLog(e.log, e.all_variables), err |-> e.err]

\* the parser accepted the program: execution has begun
Accepted == pc \in {"exec", "done", "cut"} \/ (pc = "failed" /\ exec_idx > 0)

\* C2: for every accepted pre if (c) S1 [else S2] print(x); the finished run
\* has exactly the effects of pre S1 print(x); when c is nonzero and of
\* pre S2 print(x); (pre print(x); without else) when c is 0, for S1 and S2
\* over block, declaration with and without initializer, print, nested if,
\* while and expression statement.
C2_Conditional ==
  (Finished /\ Accepted) =>
    \A pre \in Pres, c \in Lits, S1 \in StatementForms,
       S2 \in StatementForms \cup {NoElse} :
      tokens = IfProg(pre, c, S1, S2) =>
        Effects([out |-> out, log |-> log, err |-> err, all_variables |-> all_variables])
        = Effects(Main(pre \o (IF c # 0 THEN S1 ELSE S2) \o Post, ndebug))

\* the positions before k at which the log writes the slot that position k reads
WritesBefore(k) == {j \in 1..(k - 1) : log[j].op = "set" /\ log[j].id = log[k].id}

\* the branch of pre if (c) S1 [else S2] the condition selects, and the other
Taken(c, S1, S2) == IF c # 0 THEN S1 ELSE S2
Untaken(c, S1, S2) == IF c # 0 THEN S2 ELSE S1

\* C5: a read of a slot is the fatal uninitialized-variable error exactly when
\* no write of that slot precedes it in the run, and otherwise yields the
\* value of the latest write.  var x; print(x); fails, var x = 0; print(x);
\* prints 0, and after var x; a variable assigned only in the untaken branch
\* of an if or in a loop body that ran zero times is still uninitialized when
\* print(x); reads it.
C5_Uninitialized ==
  /\ \A k \in 1..Len(log) :
       /\ log[k].op = "getfail" <=>
            (log[k].op # "set" /\ WritesBefore(k) = {})
       /\ log[k].op = "getfail" => (k = Len(log) /\ err = "uninitialized")
       /\ log[k].op = "get" =>
            \E j \in WritesBefore(k) :
              /\ \A i \in WritesBefore(k) : i <= j
              /\ log[k].v = log[j].v
  /\ (tokens = PreDecl \o Post /\ Accepted) =>
       /\ pc # "done"
       /\ out = <<>>
       /\ pc = "failed" => err = "uninitialized"
  /\ (tokens = PreInit \o Post /\ Accepted) =>
       /\ pc # "failed"
       /\ pc = "done" => out = <<OutNum(Zero), OutEndl>>
  /\ (Finished /\ Accepted) =>
       \A c \in Lits, S1 \in StatementForms, S2 \in StatementForms \cup {NoElse} :
         (/\ tokens = IfProg(PreDecl, c, S1, S2)
          /\ Untaken(c, S1, S2) \in AssignsX
          /\ Taken(c, S1, S2) \notin AssignsX) =>
           /\ pc = "failed"
           /\ err = "uninitialized"
           /\ out = (IF Taken(c, S1, S2) = S_Print THEN <<OutNum(Num(3)), OutEndl>>
                     ELSE <<>>)
  /\ (tokens = LoopProg(0) /\ Accepted) =>
       /\ pc # "done"
       /\ out = <<>>
       /\ pc = "failed" => err = "uninitialized"

(***************************************************************************)
(* The scoping rules of the language, read off the tokens: which           *)
(* declaration a reference at a position resolves to, where the first      *)
(* declaration error of a program is, which slot a declaration gets.       *)
(***************************************************************************)
Max(S) == CHOOSE m \in S : \A n \in S : n <= m
Min(S) == CHOOSE m \in S : \A n \in S : m <= n

\* the names a string token interpolates, in order
RECURSIVE PieceNames(_, _)
PieceNames(pieces, i) ==
  IF i > Len(pieces) THEN <<>>
  ELSE (IF pieces[i].id = "ID_IDENTIFIER" THEN <<pieces[i].name>> ELSE <<>>)
       \o PieceNames(pieces, i + 1)

\* the identifier references of a program in order: [pos, name, own]; own
\* marks the name of a declaration with initializer (var x; builds no node)
RECURSIVE RefsFrom(_, _)
RefsFrom(toks, p) ==
  IF p > Len(toks) THEN <<>>
  ELSE (IF toks[p].id = "ID_ID"
        THEN IF p > 1 /\ toks[p - 1].id = "ID_VAR"
             THEN IF toks[p + 1].id = "ID_ASSIGN"
                  THEN <<[pos |-> p, name |-> toks[p].lexeme, own |-> TRUE]>>
                  ELSE <<>>
             ELSE <<[pos |-> p, name |-> toks[p].lexeme, own |-> FALSE]>>
        ELSE IF toks[p].id = "ID_STRING"
        THEN LET names == PieceNames(toks[p].pieces, 1)
             IN [k \in 1..Len(names) |-> [pos |-> p, name |-> names[k], own |-> FALSE]]
        ELSE <<>>)
       \o RefsFrom(toks, p + 1)

\* the number of blocks open after each token
RECURSIVE DepthsFrom(_, _, _)
DepthsFrom(toks, p, d) ==
  IF p > Len(toks) THEN <<>>
  ELSE LET d1 == IF toks[p].id = "ID_SCOPE_Start" THEN d + 1
                 ELSE IF toks[p].id = "ID_SCOPE_END" THEN d - 1
                 ELSE d
       IN <<d1>> \o DepthsFrom(toks, p + 1, d1)

\* a program as the scoping rules see it.  decls: the positions of the
\* declarations (toks[i] is var, toks[i + 1] the name); ends: the position of
\* the ; that ends each of them; depth; refs
Scan(toks) ==
  LET decls == {i \in 1..Len(toks) : toks[i].id = "ID_VAR"}
  IN [toks |-> toks,
      decls |-> decls,
      ends |-> [i \in decls |->
                  Min({j \in i..Len(toks) : toks[j].id = "ID_ENDLINE"})],
      depth |-> DepthsFrom(toks, 1, 0),
      refs |-> RefsFrom(toks, 1)]

DeclName(sc, i) == sc.toks[i + 1].lexeme
HasInit(sc, i) == sc.toks[i + 2].id = "ID_ASSIGN"
\* the block the declaration at i is in has not been closed before position r
OpenAt(sc, i, r) == \A j \in i..(r - 1) : sc.depth[j] >= sc.depth[i]
\* the declarations of name that are complete and in an open block at r
VisibleDecls(sc, r, name) ==
  {i \in sc.decls : /\ DeclName(sc, i) = name
                    /\ sc.ends[i] < r
                    /\ OpenAt(sc, i, r)}
\* the declarations of name in blocks that are closed at r
ClosedDecls(sc, r, name) ==
  {i \in sc.decls : /\ DeclName(sc, i) = name
                    /\ sc.ends[i] < r
                    /\ ~OpenAt(sc, i, r)}

\* the references that no visible declaration resolves
Unresolved(sc) ==
  {k \in 1..Len(sc.refs) :
     /\ ~sc.refs[k].own
     /\ VisibleDecls(sc, sc.refs[k].pos, sc.refs[k].name) = {}}
\* the declarations of a name the innermost open block has declared already
Redeclarations(sc) ==
  {i \in sc.decls :
     \E j \in VisibleDecls(sc, sc.ends[i], DeclName(sc, i)) :
        sc.depth[j] = sc.depth[i]}
\* the declarations of a name that only enclosing blocks have declared
Shadowings(sc) ==
  {i \in sc.decls \ Redeclarations(sc) :
     VisibleDecls(sc, sc.ends[i], DeclName(sc, i)) # {}}
\* the position of the first error, 0 if there is none: the parser meets an
\* unresolved reference at the reference, a redeclaration at its end
FirstError(sc) ==
  LET errors == {sc.refs[k].pos : k \in Unresolved(sc)}
                \cup {sc.ends[i] : i \in Redeclarations(sc)}
  IN IF errors = {} THEN 0 ELSE Min(errors)

\* the slot of the declaration at i: the number of declarations before it
SlotOf(sc, i) == Cardinality({j \in sc.decls : j < i})
\* the slot a reference resolves to
ExpectedSlot(sc, ref) ==
  IF ref.own THEN SlotOf(sc, ref.pos - 1)
  ELSE IF VisibleDecls(sc, ref.pos, ref.name) = {} THEN -1
  ELSE SlotOf(sc, Max(VisibleDecls(sc, ref.pos, ref.name)))
ExpectedSlots(sc) == [k \in 1..Len(sc.refs) |-> ExpectedSlot(sc, sc.refs[k])]

\* the slots of the Identifier nodes of a tree, in the order of the program
RECURSIVE IdSlots(_), IdSlotsOf(_, _)
IdSlots(n) ==
  (IF n.type = "IDENTIFIER" THEN <<n.var_id>> ELSE <<>>) \o IdSlotsOf(n.children, 1)
IdSlotsOf(ch, i) ==
  IF i > Len(ch) THEN <<>> ELSE IdSlots(ch[i]) \o IdSlotsOf(ch, i + 1)

\* the parser has stopped in a fatal error
ParseFailed == pc = "failed" /\ exec_idx = 0

\* C3: a reference to a name, in an expression or as a {name} piece of a
\* string, that only blocks closed before it declare is where the parser
\* stops: the run never begins to execute (no statement runs, nothing is
\* printed, read or written) and ends in the undeclared-variable error with
\* the cursor at the reference.
C3_BlockLocal ==
  LET sc == Scan(tokens)
      first == FirstError(sc)
  IN \A k \in 1..Len(sc.refs) :
       LET ref == sc.refs[k]
       IN (/\ ~ref.own
           /\ first = ref.pos
           /\ VisibleDecls(sc, ref.pos, ref.name) = {}
           /\ ClosedDecls(sc, ref.pos, ref.name) # {}) =>
            /\ pc \in {"parse", "failed"}
            /\ exec_idx = 0 /\ out = <<>> /\ log = <<>>
            /\ pc = "parse" => token_idx < ref.pos
            /\ pc = "failed" => (err = "undeclared" /\ token_idx = ref.pos)

\* { var x; } print("x={x}"); has stopped in the undeclared-variable error
C3_Witness ==
  /\ ParseFailed
  /\ err = "undeclared"
  /\ tokens = SBlock(SDecl("x")) \o S_PrintStr
  /\ Len(all_variables) = 1

\* the value and the flag of every slot are those of its own latest write
SlotsFollowWrites ==
  \A k \in 1..Len(all_variables) :
    LET W == {j \in 1..Len(log) : log[j].op = "set" /\ log[j].id = k - 1}
    IN /\ all_variables[k].initiated = (W # {})
       /\ all_variables[k].value = (IF W = {} THEN Zero ELSE log[Max(W)].v)

\* C4: in an accepted program every Identifier node holds the slot of the
\* innermost declaration of its name that is visible where it stands, so a
\* reference inside a block after an inner declaration of x has the inner
\* slot and a reference after the block the outer slot; a write changes the
\* value and the flag of its own slot only.  var x = 1; { var x = 2; x = 3;
\* print(x); } print(x); prints 3 and then 1.
C4_Innermost ==
  /\ (pc # "parse" /\ ~ParseFailed) => IdSlots(root) = ExpectedSlots(Scan(tokens))
  /\ SlotsFollowWrites
  /\ tokens = Ex_Shadow =>
       /\ pc # "failed"
       /\ pc = "done" =>
            /\ out = <<OutNum(Num(3)), OutEndl, OutNum(Num(1)), OutEndl>>
            /\ log = <<[op |-> "set", id |-> 0, v |-> Num(1)],
                       [op |-> "set", id |-> 1, v |-> Num(2)],
                       [op |-> "set", id |-> 1, v |-> Num(3)],
                       [op |-> "get", id |-> 1, v |-> Num(3)],
                       [op |-> "get", id |-> 0, v |-> Num(1)]>>

\* the shadowing example has run to its end
C4_Witness ==
  /\ pc = "done"
  /\ tokens = Ex_Shadow
  /\ Len(out) = 4
  /\ all_variables[1].value = Num(1)
  /\ all_variables[2].value = Num(3)

\* the references to the declared name inside the initializer of the
\* declaration at i
SelfRefs(sc, i) ==
  {k \in 1..Len(sc.refs) :
     /\ ~sc.refs[k].own
     /\ sc.refs[k].name = DeclName(sc, i)
     /\ sc.refs[k].pos > i + 2
     /\ sc.refs[k].pos < sc.ends[i]}

\* var x = 1; { var x = x; print(x); }
Ex_SelfInit ==
  SDeclInit("x", ELit(1)) \o SBlock(SDeclInit("x", EId("x")) \o Post)

\* C8: an occurrence of x in the initializer of var x = E; never has the
\* slot of this declaration: with an enclosing declaration of x visible its
\* node holds that declaration's slot, without one the parser stops at the
\* occurrence in the undeclared-variable error and no slot has been allocated
\* for the declaration.  var x = 1; { var x = x; print(x); } prints 1.
C8_InitializerFirst ==
  /\ LET sc == Scan(tokens)
         first == FirstError(sc)
         slots == IdSlots(root)
     IN \A i \in sc.decls :
          HasInit(sc, i) =>
            \A k \in SelfRefs(sc, i) :
              LET ref == sc.refs[k]
                  outer == VisibleDecls(sc, ref.pos, ref.name)
              IN IF outer = {}
                 THEN first = ref.pos =>
                        /\ pc \in {"parse", "failed"}
                        /\ pc = "parse" => token_idx < i
                        /\ pc = "failed" =>
                             /\ err = "undeclared"
                             /\ token_idx = ref.pos
                             /\ Len(all_variables) = SlotOf(sc, i)
                 ELSE (pc # "parse" /\ ~ParseFailed) =>
                        /\ slots[k] = SlotOf(sc, Max(outer))
                        /\ slots[k] # SlotOf(sc, i)
                        /\ slots[k - 1] = SlotOf(sc, i)
  /\ tokens = Ex_SelfInit =>
       /\ pc # "failed"
       /\ pc = "done" => out = <<OutNum(Num(1)), OutEndl>>

\* var x = 1; { var x = x; print(x); } has printed the outer value
C8_Witness ==
  /\ pc = "done"
  /\ tokens = Ex_SelfInit
  /\ out = <<OutNum(Num(1)), OutEndl>>
  /\ Len(all_variables) = 2

\* the names of the generated programs
Names == {"x", "y", "i"}

\* C9: AddVar of a name the innermost frame binds is the fatal redeclaration
\* error and changes neither the records nor the frames; AddVar of a name
\* that only outer frames bind appends the record [name, 0, not initialized]
\* and binds the name to it in the innermost frame, the other frames left
\* as they are.  In a program the parser stops at the end of a redeclaration
\* with no record added and the binding unchanged; a shadowing declaration
\* is passed, its record is new, and after its block the outer binding is
\* the visible one.
C9_Redeclare ==
  /\ pc = "parse" =>
       \A name \in Names :
         /\ name \in DOMAIN scope_stack[Len(scope_stack)] =>
              AddVar(ParserState, name, 1) = Fatal(ParserState, "redeclared")
         /\ HasVar(ParserState, name) =>
              LET r == AddVar(PushScope(ParserState), name, 1)
              IN /\ Ok(r)
                 /\ r.all_variables =
                      Append(all_variables,
                             [name |-> name, value |-> Zero, line_declared |-> 1,
                              initiated |-> FALSE])
                 /\ r.scope_stack =
                      Append(scope_stack, name :> Len(all_variables))
  /\ LET sc == Scan(tokens)
         first == FirstError(sc)
     IN /\ \A i \in Redeclarations(sc) :
             first = sc.ends[i] =>
               /\ pc \in {"parse", "failed"}
               /\ pc = "parse" => token_idx < i
               /\ pc = "failed" =>
                    /\ err = "redeclared"
                    /\ token_idx = sc.ends[i]
                    /\ Len(all_variables) = SlotOf(sc, i)
                    /\ scope_stack[Len(scope_stack)][DeclName(sc, i)]
                       = SlotOf(sc, Max(VisibleDecls(sc, sc.ends[i], DeclName(sc, i))))
        /\ \A i \in Shadowings(sc) :
             (first \notin 1..sc.ends[i] /\ token_idx >= sc.ends[i]) =>
               /\ Len(all_variables) > SlotOf(sc, i)
               /\ all_variables[SlotOf(sc, i) + 1].name = DeclName(sc, i)
               /\ (pc = "parse" \/ (pc = "exec" /\ exec_idx = 0)) =>
                    /\ all_variables[SlotOf(sc, i) + 1].value = Zero
                    /\ ~all_variables[SlotOf(sc, i) + 1].initiated
               /\ pc # "failed" =>
                    LET outer == VisibleDecls(sc, token_idx + 1, DeclName(sc, i))
                    IN /\ Len(scope_stack) = 1
                       /\ i \notin outer
                       /\ IF outer = {}
                          THEN DeclName(sc, i) \notin DOMAIN scope_stack[1]
                          ELSE scope_stack[1][DeclName(sc, i)] = SlotOf(sc, Max(outer))

\* var x; { var x; var x; }: the first inner declaration shadowed the outer
\* x, the second one has stopped the parser
C9_Witness ==
  /\ ParseFailed
  /\ err = "redeclared"
  /\ tokens = SDecl("x") \o SBlock(SDecl("x") \o SDecl("x"))
  /\ Len(all_variables) = 2
  /\ scope_stack = <<"x" :> 0, "x" :> 1>>

\* the declarations the parser has completed: those that end at or before
\* the cursor, but for a redeclaration it has stopped at
CompletedDecls(sc) ==
  {i \in sc.decls :
     /\ sc.ends[i] <= token_idx
     /\ ~(ParseFailed /\ err = "redeclared" /\ sc.ends[i] = token_idx)}

\* the bindings of the open frames
Bindings ==
  {<<f, n>> \in (1..Len(scope_stack)) \X Names : n \in DOMAIN scope_stack[f]}

\* { var x = 2; } var x = 2;
Ex_TwoSlots == SBlock(SDeclInit("x", ELit(2))) \o SDeclInit("x", ELit(2))

\* the table holds one record per completed declaration, in the order of
\* the declarations; the open frames bind different names to different
\* slots, each the slot of the declaration it stands for; every slot in a
\* frame, in an Identifier node and in a read or write is smaller than the
\* number of records, and no run ends in an invalid index
SlotsInRange ==
  LET sc == Scan(tokens)
      slots == IdSlots(root)
  IN /\ Len(all_variables) = Cardinality(CompletedDecls(sc))
     /\ \A i \in CompletedDecls(sc) :
          all_variables[SlotOf(sc, i) + 1].name = DeclName(sc, i)
     /\ \A b \in Bindings :
          /\ scope_stack[b[1]][b[2]] < Len(all_variables)
          /\ all_variables[scope_stack[b[1]][b[2]] + 1].name = b[2]
          /\ \A c \in Bindings :
               scope_stack[b[1]][b[2]] = scope_stack[c[1]][c[2]] => b = c
     /\ pc # "failed" =>
          \A n \in DOMAIN scope_stack[1] :
            LET decls == VisibleDecls(sc, token_idx + 1, n)
            IN decls # {} /\ scope_stack[1][n] = SlotOf(sc, Max(decls))
     /\ \A k \in 1..Len(slots) : slots[k] < Len(all_variables)
     /\ (pc # "parse" /\ ~ParseFailed) =>
          \A k \in 1..Len(sc.refs) :
            sc.refs[k].own => slots[k] = SlotOf(sc, sc.refs[k].pos - 1)
     /\ \A k \in 1..Len(log) : log[k].id < Len(all_variables)
     /\ err # "invalid index"

\* a step keeps the records there are under their slots, and the frames and
\* the Identifier nodes it leaves alone keep their slots
SlotsKept ==
  /\ Len(all_variables') >= Len(all_variables)
  /\ \A k \in 1..Len(all_variables) :
       /\ all_variables'[k].name = all_variables[k].name
       /\ all_variables'[k].line_declared = all_variables[k].line_declared
  /\ \A k \in 1..Len(root.children) : root'.children[k] = root.children[k]
  /\ pc' # "failed" =>
       \A n \in DOMAIN scope_stack[1] :
         n \in DOMAIN scope_stack'[1] /\ scope_stack'[1][n] = scope_stack[1][n]

\* C10: the k-th successful declaration of a run has slot k, so no two
\* declarations share a slot, not even after the scope of the first has
\* been popped; every slot stored in a frame, in an Identifier node or used
\* by a read or write is smaller than the number of records; and no step
\* shrinks the table or changes a slot that has been assigned.
C10_SlotsStable == []SlotsInRange /\ [][SlotsKept]_vars

\* { var x = 2; } var x = 2; has run: the second x has a slot of its own
C10_Witness ==
  /\ pc = "done"
  /\ tokens = Ex_TwoSlots
  /\ Len(all_variables) = 2
  /\ scope_stack = <<"x" :> 1>>
  /\ IdSlots(root) = <<0, 1>>

\* the scope stack has a frame; PopScope on the stack as it is, and on the
\* stack one PushScope deeper, does what its depth says: on one frame (or on
\* none) the fatal error with every frame left in place, on more the
\* innermost frame removed and nothing else changed
OutermostStays ==
  LET s == ParserState
      depth == Len(scope_stack)
  IN /\ depth >= 1
     /\ pc # "failed" => depth = 1
     /\ PopScope([s EXCEPT !.scope_stack = <<>>])
        = [s EXCEPT !.scope_stack = <<>>, !.err = "pop nonexistent scope"]
     /\ depth = 1 => PopScope(s) = [s EXCEPT !.err = "pop outermost scope"]
     /\ depth > 1 =>
          PopScope(s) = [s EXCEPT !.scope_stack = SubSeq(scope_stack, 1, depth - 1)]
     /\ PopScope(PushScope(s)) = s
     /\ \A name \in Names :
          LET r == AddVar(PushScope(s), name, 1)
          IN PopScope(r).scope_stack = scope_stack

\* a step leaves the bindings of the frame at index 0 where they are
OutermostKept ==
  /\ Len(scope_stack') >= 1
  /\ \A n \in DOMAIN scope_stack[1] :
       n \in DOMAIN scope_stack'[1] /\ scope_stack'[1][n] = scope_stack[1][n]

\* C11: the scope stack always holds at least one frame and the frame at
\* index 0 is the one of the construction, its bindings kept by every step;
\* PopScope on a stack of one frame or of none is a fatal error that removes
\* nothing, PopScope on a deeper stack removes exactly the innermost frame.
C11_OutermostScope == []OutermostStays /\ [][OutermostKept]_vars

\* var x; { var x; } print(x); the block has been closed: its frame is gone,
\* its record is not, and x is bound in the outermost frame as before
C11_Witness ==
  /\ pc = "parse"
  /\ tokens = SDecl("x") \o SBlock(SDecl("x")) \o Post
  /\ token_idx = 8
  /\ Len(all_variables) = 2
  /\ scope_stack = <<"x" :> 0>>

\* the value of a comparison of two integers
CmpVal(op, a, b) ==
  CASE op = "==" -> IF a = b THEN 1 ELSE 0
    [] op = "!=" -> IF a # b THEN 1 ELSE 0
    [] op = "<" -> IF a < b THEN 1 ELSE 0
    [] op = ">" -> IF a > b THEN 1 ELSE 0
    [] op = "<=" -> IF a <= b THEN 1 ELSE 0
    [] op = ">=" -> IF a >= b THEN 1 ELSE 0

\* two operators of one comparison level
SameLevel(op1, op2) ==
  (op1 \in EqualsOps /\ op2 \in EqualsOps) \/ (op1 \in CompareOps /\ op2 \in CompareOps)

\* the program is accepted: the parser never stops in an error, and the
\* finished run of a print has printed the value v and then the 7 of the
\* statement that follows
AcceptedWith(ctx, v) ==
  /\ ~ParseFailed
  /\ (pc = "done" /\ ctx = "print") =>
       out = <<OutNum(Num(v)), OutEndl, OutNum(Num(7)), OutEndl>>
  /\ (pc = "done" /\ ctx # "print") => out = <<OutNum(Num(7)), OutEndl>>

\* C12: as an expression statement, as the argument of print and as an
\* initializer, 1 op1 2 op2 1 with op1 and op2 of one comparison level is
\* rejected with the syntax error at the second operator, while
\* 1 r1 2 e 0 r2 2 (one relational comparison on each side of one equality),
\* (1 op1 2) op2 1 and 1 op1 (2 op2 1) are accepted and have the value of
\* their grouping.
C12_NoChaining ==
  \A ctx \in Contexts :
    /\ \A op1 \in CmpOps, op2 \in CmpOps :
         /\ (tokens = InContext(ctx, ChainExpr(op1, op2)) \o Follower
             /\ SameLevel(op1, op2)) =>
              /\ pc \in {"parse", "failed"}
              /\ pc = "parse" => token_idx = 0
              /\ pc = "failed" =>
                   /\ err = "Unexpected token"
                   /\ token_idx = Before(ctx) + 3
                   /\ out = <<>>
         /\ tokens = InContext(ctx, ParenLeft(op1, op2)) \o Follower =>
              AcceptedWith(ctx, CmpVal(op2, CmpVal(op1, 1, 2), 1))
         /\ tokens = InContext(ctx, ParenRight(op1, op2)) \o Follower =>
              AcceptedWith(ctx, CmpVal(op1, 1, CmpVal(op2, 2, 1)))
    /\ \A r1 \in CompareOps, e \in EqualsOps, r2 \in CompareOps :
         tokens = InContext(ctx, BothSides(r1, e, r2)) \o Follower =>
           AcceptedWith(ctx, CmpVal(e, CmpVal(r1, 1, 2), CmpVal(r2, 0, 2)))

\* a read or write of the variable name with the integer value v
Event(op, name, v) == [op |-> op, name |-> name, v |-> Num(v)]

\* the value of a right side when i is 1, the reads and writes of its one
\* evaluation, and the value of i after it
RightValue(E) == IF E \in {ELit(v) : v \in Lits} THEN CHOOSE v \in Lits : E = ELit(v)
                 ELSE IF E = EId("i") THEN 1 ELSE 2
RightLog(E) ==
  IF E \in {ELit(v) : v \in Lits} THEN <<>>
  ELSE IF E = EAsg("i", EBin(EId("i"), "+", ELit(1)))
       THEN <<Event("get", "i", 1), Event("set", "i", 2)>>
       ELSE <<Event("get", "i", 1)>>
RightAfter(E) == IF E = EAsg("i", EBin(EId("i"), "+", ELit(1))) THEN 2 ELSE 1

\* the lines of numbers a run has printed
Lines(vs) == [k \in 1..2 * Len(vs) |-> IF k % 2 = 1 THEN OutNum(Num(vs[(k + 1) \div 2])) ELSE OutEndl]

\* the parser stops at the "=" that follows the left side L
RejectedAt(L) ==
  /\ pc \in {"parse", "failed"}
  /\ pc = "parse" => token_idx <= Len(SDeclInit("x", ELit(0)))
  /\ pc = "failed" =>
       /\ err = "Unexpected token"
       /\ token_idx = Len(SDeclInit("x", ELit(0))) + 2 + Len(L)
       /\ out = <<>> /\ log = <<>>

\* C13: x = y = E; parses as x = (y = E) and the run evaluates E once, writes
\* its value to y and then to x, leaving both slots initiated with it;
\* print(x = E) prints the value of E and leaves it in x; and L = 2, in print and as the right side of x = ..., is
\* rejected with the syntax error at the "=" for every L that is not an
\* identifier: a number, a sum, a negation and each of them in parentheses,
\* the identifier in parentheses (x) included.
C13_Assignment ==
  /\ \A E \in RightSides :
       /\ tokens = AssignChain(E) =>
            /\ pc \notin {"failed", "cut"}
            /\ pc \in {"exec", "done"} =>
                 LET n == root.children[2]
                 IN /\ n.type = "ASSIGN" /\ Len(n.children) = 2
                    /\ n.children[1] = ASTNodeVar("IDENTIFIER", 0)
                    /\ n.children[2].type = "ASSIGN"
                    /\ n.children[2].children[1] = ASTNodeVar("IDENTIFIER", 1)
            /\ pc = "done" =>
                 /\ out = Lines(<<RightValue(E), RightValue(E), RightAfter(E)>>)
                 /\ NamedLog(log, all_variables) =
                      <<Event("set", "i", 1)>> \o RightLog(E)
                      \o <<Event("set", "y", RightValue(E)), Event("set", "x", RightValue(E)),
                           Event("get", "x", RightValue(E)), Event("get", "y", RightValue(E)),
                           Event("get", "i", RightAfter(E))>>
                 /\ \A k \in 1..2 : /\ all_variables[k].initiated
                                    /\ all_variables[k].value = Num(RightValue(E))
       /\ tokens = AssignPrint(E) =>
            /\ pc \notin {"failed", "cut"}
            /\ pc = "done" =>
                 /\ out = Lines(<<RightValue(E), RightValue(E), RightAfter(E)>>)
                 /\ NamedLog(log, all_variables) =
                      <<Event("set", "i", 1)>> \o RightLog(E)
                      \o <<Event("set", "x", RightValue(E)),
                           Event("get", "x", RightValue(E)),
                           Event("get", "i", RightAfter(E))>>
  /\ \A L \in LeftSides :
       (tokens = AssignTo(L) \/ tokens = AssignThrough(L)) => RejectedAt(L)

\* the integers a, a + 1, ..., b - 1 in order
Upto(a, b) == [k \in 1..(IF b > a THEN b - a ELSE 0) |-> a + k - 1]

RECURSIVE CountLog(_, _)
\* the reads and writes of while (i < c) { print(i); i = i + 1; } on i = j:
\* per iteration the condition, the print and the increment; then the
\* evaluation of the condition that yields 0
CountLog(j, c) ==
  IF j < c
  THEN <<Event("get", "i", j), Event("get", "i", j), Event("get", "i", j),
         Event("set", "i", j + 1)>> \o CountLog(j + 1, c)
  ELSE <<Event("get", "i", j)>>

RECURSIVE CountInConditionLog(_, _)
\* the reads and writes of while ((i = i + 1) < c) print(i); on i = j
CountInConditionLog(j, c) ==
  <<Event("get", "i", j), Event("set", "i", j + 1)>>
  \o (IF j + 1 < c THEN <<Event("get", "i", j + 1)>> \o CountInConditionLog(j + 1, c)
      ELSE <<>>)

\* the finished runs of the loops whose condition becomes 0
WhileRuns ==
  /\ tokens \in EndingLoops => pc \notin {"cut", "failed"}
  /\ \A s \in Lits, c \in Lits :
       (tokens = CountUp(s, c) /\ pc = "done") =>
         /\ out = Lines(Upto(s, c) \o <<Max({s, c})>>)
         /\ NamedLog(log, all_variables) =
              <<Event("set", "i", s)>> \o CountLog(s, c) \o <<Event("get", "i", Max({s, c}))>>
  /\ \A s \in Lits :
       (tokens = CountDown(s) /\ pc = "done") =>
         /\ out = Lines(<<0>>)
         /\ Len(SelectSeq(log, LAMBDA ev : ev.op = "set")) = 1 + s
         /\ Len(SelectSeq(log, LAMBDA ev : ev.op = "get")) = 2 * s + 2
  /\ \A c \in Lits \cup {MaxLit + 1} :
       (tokens = CountInCondition(c) /\ pc = "done") =>
         LET k == Max({c - 1, 0})
         IN /\ out = Lines(Upto(1, k + 1) \o <<k + 1>>)
            /\ NamedLog(log, all_variables) =
                 <<Event("set", "i", 0)>> \o CountInConditionLog(0, c)
                 \o <<Event("get", "i", k + 1)>>
  /\ tokens = Ex_WhileZero => (out = <<>> /\ log = <<>>)
  /\ (tokens = Ex_WhileZero \o Follower /\ pc = "done") => (out = Lines(<<7>>) /\ log = <<>>)

\* C14: a loop whose condition first yields 0 at its (k+1)-th evaluation has
\* run its body exactly k times, in the order condition, body, ...,
\* condition, with nothing else read, written or printed; while (0) print(1);
\* prints nothing; and the run of every such loop (a counter counted up to a
\* bound in the body or in the condition, or down to 0) reaches its end.
C14_While == []WhileRuns /\ (tokens \in EndingLoops => <>(pc = "done"))

\* the counter has gone from 0 to 2: three evaluations of the condition, two
\* runs of the body
C14_Witness ==
  /\ pc = "done" /\ tokens = CountUp(0, 2)
  /\ out = Lines(<<0, 1, 2>>)
  /\ Len(SelectSeq(log, LAMBDA ev : ev.op = "set")) = 3

\* the nodes of one type in the tree
NodesOf(type) == {n \in SubNodes(root) : n.type = type}

\* the parser has accepted the whole program
Parsed == pc \in {"exec", "done", "cut"} \/ (pc = "failed" /\ exec_idx > 0)

\* C15: if (c) S with no else is accepted, as a Conditional with the 2
\* children condition and S, when it is followed by another statement, when
\* it is followed by the "}" of its block and when it is the last statement
\* of the program; the run prints what S prints when c is nonzero.
C15_ElseOptional ==
  \A pos \in Positions, c \in 0..1, S \in Branches :
    tokens = Place(pos, SIf(ELit(c), S)) =>
      /\ pc # "failed"
      /\ Parsed =>
           /\ NodesOf("CONDITIONAL") # {}
           /\ \A n \in NodesOf("CONDITIONAL") :
                /\ Len(n.children) = 2
                /\ n.children[1] = ASTNodeVal("NUMBER", Num(c))
                /\ n.children[2].type \in {"PRINT", "SCOPE"}
      /\ pc = "done" =>
           out = (IF c = 1 THEN Lines(<<1>>) ELSE <<>>)
                 \o (IF pos = "last" THEN <<>> ELSE Lines(<<7>>))

\* C16: var x = 1; E; print(x); is accepted for every expression E, whether it
\* starts with an identifier, a number, "(", unary "-" or "!", and the run
\* prints the x that E leaves: 2 when E assigns it, else 1.
C16_ExprStatement ==
  \A E \in StatementExprs :
    tokens = ExprStatement(E) =>
      /\ pc # "failed"
      /\ pc = "done" => out = Lines(<<IF E \in Assigning THEN 2 ELSE 1>>)

\* the Print node of print(E) for the two arguments
PrintOf(E) ==
  AddChild(ASTNode("PRINT"),
           IF E = ELit(1) THEN ASTNodeVal("NUMBER", Num(1))
           ELSE ASTNodeOp2("OPERATION", "+", ASTNodeVal("NUMBER", Num(1)),
                           ASTNodeVal("NUMBER", Num(2))))

\* C17: print(E) is accepted with and without the ";" after it, followed by
\* another statement, by the "}" of its block or by the end of the program;
\* both forms give the same Print node, and the run prints E and then what
\* the next statement prints.
C17_PrintSemicolon ==
  \A pos \in Positions, semi \in BOOLEAN, E \in PrintArgs :
    tokens = Place(pos, PrintWith(semi, E)) =>
      /\ pc # "failed"
      /\ Parsed =>
           PrintOf(E) = (IF pos = "closing" THEN root.children[1].children[1]
                           ELSE root.children[1])
      /\ pc = "done" =>
           out = Lines(<<IF E = ELit(1) THEN 1 ELSE 3>>)
                 \o (IF pos = "last" THEN <<>> ELSE Lines(<<7>>))

\* nothing has been executed: no output, no read or write, no slot with a
\* value
NothingRun ==
  /\ exec_idx = 0 /\ out = <<>> /\ log = <<>>
  /\ \A k \in 1..Len(all_variables) : ~all_variables[k].initiated

\* C18: while the parser runs and when it has stopped in an error nothing
\* has been executed; execution starts only with every token parsed; and
\* var x = 1; print(x); x = 2; followed by a statement with a syntax error, an
\* assignment to a number, the end of the tokens inside print, an undeclared
\* variable (also in a loop body that would never run) or a redeclaration is
\* never executed: the run stops in the parser with no output and no write.
C18_ParseFirst ==
  /\ (pc = "parse" \/ ParseFailed) => NothingRun
  /\ (pc # "parse" /\ ~ParseFailed) => (token_idx = Len(tokens) /\ err # "Unexpected EOF")
  /\ \A kind \in ErrorKinds :
       tokens = Late(kind) =>
         /\ pc \in {"parse", "failed"}
         /\ pc = "failed" =>
              /\ ParseFailed
              /\ err = CASE kind \in {"syntax", "target"} -> "Unexpected token"
                         [] kind = "eof" -> "Unexpected EOF"
                         [] kind \in {"undeclared", "unreached"} -> "undeclared"
                         [] kind = "redeclared" -> "redeclared"

\* the parser has stopped at the undeclared y after it has parsed
\* var x = 1; print(x); x = 2; and nothing has been printed
C18_Witness ==
  /\ ParseFailed /\ tokens = Late("undeclared")
  /\ Len(root.children) = 3 /\ root.children[2].type = "PRINT"
  /\ out = <<>>

\* the types of the children of a node, in order
ChildTypes(n) == [k \in 1..Len(n.children) |-> n.children[k].type]

\* C19: in every tree the parser builds each Conditional has 2 or 3
\* children, each While 2 and each Assign 2 with an Identifier first; and
\* the Conditional of if (0) S, of if (0) S1 else S2 and the While of
\* while (0) S have the children condition, S (, S2) in this order for S, S1,
\* S2 over declaration without initializer (an Empty node), declaration
\* with initializer, print, block, expression statement, if and while.
C19_Arity ==
  /\ \A n \in SubNodes(root) :
       /\ n.type = "CONDITIONAL" => Len(n.children) \in {2, 3}
       /\ n.type = "WHILE" => Len(n.children) = 2
       /\ n.type = "ASSIGN" => (Len(n.children) = 2 /\ n.children[1].type = "IDENTIFIER")
  /\ \A t1 \in SubstatementTypes :
       /\ tokens \in {IfOf(t1), WhileOf(t1)} =>
            /\ pc # "failed"
            /\ Parsed =>
                 /\ root.children[1].type = (IF tokens = IfOf(t1) THEN "CONDITIONAL" ELSE "WHILE")
                 /\ ChildTypes(root.children[1]) = <<"NUMBER", t1>>
       /\ \A t2 \in SubstatementTypes :
            tokens = IfElseOf(t1, t2) =>
              /\ pc # "failed"
              /\ Parsed =>
                   /\ root.children[1].type = "CONDITIONAL"
                   /\ ChildTypes(root.children[1]) = <<"NUMBER", t1, t2>>

\* C20: print(l % r); print(7); ends without error for every left operand l
\* and every right operand r that is not 0, the right operands 1/2 and -1/2
\* included, and prints the remainder of trunc(l) by trunc(r) and then 7.
C20_Modulus ==
  \A l \in LeftValues, r \in RightValues :
    tokens = ModProg(l, r) =>
      /\ pc # "failed"
      /\ (pc = "done" /\ TruncInt(r) # 0) =>
           out = Lines(<<CRem(TruncInt(l), TruncInt(r)), 7>>)

\* the slots the Assign nodes under n write
Targets(n) ==
  {m.children[1].var_id : m \in {a \in SubNodes(n) : a.type = "ASSIGN" /\ Len(a.children) = 2}}

\* the writes a step adds to the log
NewWrites == {k \in (Len(log) + 1)..Len(log') : log'[k].op = "set"}

\* a step of Execute leaves the scope stack, the bindings, the tree and the
\* parser's position as they are, adds and removes no record and changes no
\* name; a record that changes is the target of an Assign node of the
\* statement that runs, the step has logged the write of its new value, and
\* it is initiated afterwards
ExecFrame ==
  pc = "exec" =>
    /\ scope_stack' = scope_stack /\ root' = root /\ token_idx' = token_idx
    /\ Len(all_variables') = Len(all_variables)
    /\ \A k \in 1..Len(all_variables) :
         /\ all_variables'[k].name = all_variables[k].name
         /\ all_variables'[k].line_declared = all_variables[k].line_declared
         /\ all_variables'[k] # all_variables[k] =>
              /\ exec_idx < Len(root.children)
              /\ k - 1 \in Targets(root.children[exec_idx + 1])
              /\ all_variables'[k].initiated
              /\ \E w \in NewWrites :
                   log'[w].id = k - 1 /\ log'[w].v = all_variables'[k].value
    /\ \A w \in NewWrites :
         /\ exec_idx < Len(root.children)
         /\ log'[w].id \in Targets(root.children[exec_idx + 1])

Opens(n) == Cardinality({k \in 1..n : tokens[k].id = "ID_SCOPE_Start"})
Closes(n) == Cardinality({k \in 1..n : tokens[k].id = "ID_SCOPE_END"})

\* the index of the first "}" that no "{" before it matches, -1 if none
Stray ==
  LET strays == {k \in 1..Len(tokens) :
                   tokens[k].id = "ID_SCOPE_END" /\ Opens(k - 1) = Closes(k - 1)}
  IN IF strays = {} THEN -1 ELSE Min(strays) - 1

\* C22: the depth of the scope stack is 1 plus the "{" consumed minus the
\* "}" consumed, in every state, the ones the parser stops in included; no
\* run ends in a PopScope error; after a successful parse one frame is left;
\* and of the programs made of "{", "}" and print(7); the ones with a "}"
\* that matches no "{" stop with the syntax error at that "}", the others
\* with an unclosed "{" stop at the end of the tokens with the
\* end-of-input error, and the rest are accepted.
C22_ScopeDepth ==
  /\ Len(scope_stack) = 1 + Opens(token_idx) - Closes(token_idx)
  /\ err \notin {"pop outermost scope", "pop nonexistent scope"}
  /\ Parsed => (Len(scope_stack) = 1 /\ Opens(Len(tokens)) = Closes(Len(tokens)))
  /\ tokens \in BracePrograms =>
       LET depth == 1 + Opens(Len(tokens)) - Closes(Len(tokens))
       IN /\ Stray >= 0 =>
               /\ pc \in {"parse", "failed"}
               /\ pc = "failed" =>
                    /\ err = "Unexpected token" /\ token_idx = Stray
                    /\ Len(scope_stack) = 1
          /\ (Stray < 0 /\ depth > 1) =>
               /\ pc \in {"parse", "failed"}
               /\ pc = "failed" =>
                    /\ err = "Unexpected EOF" /\ token_idx = Len(tokens)
                    /\ Len(scope_stack) = depth
          /\ (Stray < 0 /\ depth = 1) => pc # "failed"

\* { print(7); { print(7); has reached the end of the tokens two frames deep
C22_Witness ==
  /\ ParseFailed /\ err = "Unexpected EOF"
  /\ tokens = <<tLB>> \o Follower \o <<tLB>> \o Follower
  /\ token_idx = Len(tokens) /\ Len(scope_stack) = 3

\* the nodes that return a value
ValueTypes == {"NUMBER", "IDENTIFIER", "OPERATION", "ASSIGN"}

\* the children of n whose value RunExpect demands
Demanded(n) ==
  CASE n.type = "PRINT" -> {c \in {n.children[k] : k \in 1..Len(n.children)} : c.type # "STRING"}
    [] n.type = "ASSIGN" -> {n.children[k] : k \in 2..Len(n.children)}
    [] n.type = "OPERATION" -> {n.children[k] : k \in 1..Len(n.children)}
    [] n.type \in {"CONDITIONAL", "WHILE"} ->
         {n.children[k] : k \in 1..Min({1, Len(n.children)})}
    [] OTHER -> {}

\* C23: in every tree the parser builds, each child whose value is demanded
\* (Print argument, Assign right side, Operation operand, Conditional and
\* While condition) is a Number, Identifier, Operation or Assign node; each
\* such node returns a value whenever its run ends without error; no run
\* ever ends in "Child did not return value!"; and var x = 1; S; print(x);
\* runs without any error for S demanding, in each of these places, the
\* value of a number, an identifier, an operation and an assignment.
C23_ValueDemanded ==
  /\ \A n \in SubNodes(root) :
       /\ \A c \in Demanded(n) : c.type \in ValueTypes
       /\ n.type \in ValueTypes =>
            LET r == Run(n, EvalState) IN Ok(r) => r.has
  /\ err # "Child did not return value!"
  /\ tokens \in ValuePrograms => pc # "failed"

\* if (x = 0) print(1); else print(2); has taken the else branch on the value
\* of the assignment
C23_Witness ==
  /\ pc = "done" /\ tokens = ValueProg("if", EAsg("x", ELit(0)))
  /\ out = Lines(<<2, 0>>)

\* C24: var x; in the body of a loop gets one record when the loop is
\* parsed and no run of the body adds or resets one: in
\* var i = 0; while (i < c) { var x; if (i) print(x); x = i + v; i = i + 1; }
\* the read of x in every iteration after the first precedes the assignment
\* of that iteration, does not fail and prints the value the iteration
\* before wrote, v + i - 1; only a read in the first iteration fails.
C24_DeclInLoop ==
  /\ \A c \in Lits \cup {MaxLit + 1}, v \in Lits :
       tokens = DeclInLoop(c, v) =>
         /\ pc \notin {"failed", "cut"}
         /\ Parsed =>
              /\ Len(all_variables) = 2
              /\ all_variables[2].name = "x"
         /\ pc = "done" =>
              /\ out = Lines([k \in 1..Max({c - 1, 0}) |-> v + k - 1] \o <<c>>)
              /\ Len(SelectSeq(log, LAMBDA ev : ev.op = "getfail")) = 0
              /\ c > 0 => (all_variables[2].initiated
                           /\ all_variables[2].value = Num(v + c - 1))
  /\ (tokens = Ex_ReadFirst /\ pc \in {"done", "failed", "cut"}) =>
       /\ pc = "failed" /\ err = "uninitialized" /\ out = <<>>
       /\ Len(all_variables) = 2

\* the third iteration has printed the x of the second
C24_Witness ==
  /\ pc = "done" /\ tokens = DeclInLoop(3, 1)
  /\ out = Lines(<<1, 2, 3>>)
  /\ Len(all_variables) = 2

=============================================================================
